---- MODULE Spec2Model ----
(***************************************************************************)
(* A model of the curve editing and tube generation code of costume-design *)
(* (src/curve, src/math, src/geometry).                                    *)
(*                                                                         *)
(* Numbers.  Coordinates are integers (lattice points).  Angles come in    *)
(* two units, as in the code: radians, counted here in quarter turns       *)
(* (Pi == 2), and degrees.  The trigonometric functions are exact on       *)
(* multiples of a quarter turn and undefined elsewhere, so every handle    *)
(* vector of the model is parallel to a coordinate axis; an evaluation     *)
(* that leaves this domain stops TLC instead of returning a wrong value.   *)
(* Floating-point rounding and the sign of zero results are not modelled.  *)
(***************************************************************************)
EXTENDS Integers, Sequences, FiniteSets, TLC

VARIABLES
  rev,        \* which revision of Curve2 the curve object is an instance of
  cps,        \* Curve2.cps: the control points
  curves,     \* CurvePath.curves: the Bezier segments
  last,       \* the last call made on the curve (history)
  interps,    \* number of interpolateCp calls that split a segment (history)
  indexI,     \* panel: obj.indexI
  indexR,     \* panel: obj.indexR
  cICP,       \* panel: whether the interpolateCp button is enabled
  cRCP,       \* panel: whether the removeCp button is enabled
  axisSegments,   \* tube generator: number of rings minus one
  crossSegments,  \* tube generator: number of columns minus one
  pc,         \* tube generator: the loop being run
  loopI,      \* tube generator: the loop variable i
  loopJ,      \* tube generator: the loop variable j
  nCPsAfter,  \* tube generator: CPsAfter.length
  nNormals,   \* tube generator: normals.length
  nVertices,  \* tube generator: vertices.length
  nUvs,       \* tube generator: uvs.length
  indices,    \* tube generator: the index buffer
  reads,      \* tube generator: the CPsAfter entries read for the last corrected normal
  origin,     \* tube generator: where the segment counts of this run came from
  buffers,    \* tube generator: which grid vertex each buffer entry belongs to
  vtx,        \* cross-section transform: the vertex being computed
  geo,        \* surface normals: the rings of a tube and their normals
  scene,      \* tube panel: the geometries of the group's wireframe and mesh
  trig,       \* angle utilities: the last evaluation of safeAsin or safeAcos
  mod,        \* modulation parameters: the ring being resolved
  undo,       \* editing history: the stacks of parameter snapshots
  gui,        \* panel folders: the folder tree and its saved open/closed state
  mem,        \* copies: the objects in memory, an original and its clone
  kind,       \* control-point editor: "cp2" or "cp3"
  point,      \* control-point editor: the control point being edited
  lastOp,     \* control-point editor: the handle or flag last edited (history)
  target,     \* serialization: the class of the object, "tube", "cp3" or "curve2"
  subject,    \* serialization: the object
  data,       \* serialization: what subject.toJSON() returned
  restored    \* serialization: the new object after fromJSON(data)

curveVars == <<rev, cps, curves, last, interps, indexI, indexR, cICP, cRCP>>

tubeVars == <<axisSegments, crossSegments, pc, loopI, loopJ,
              nCPsAfter, nNormals, nVertices, nUvs, indices, reads, origin,
              buffers>>

pointVars == <<kind, point, lastOp>>

jsonVars == <<target, subject, data, restored>>

moreVars == <<vtx, geo, scene, trig>>

lateVars == <<mod, undo, gui, mem>>

vars == <<curveVars, tubeVars, pointVars, jsonVars, moreVars, lateVars>>

\* The parts of the state a component leaves alone.
othersThanCurve == <<tubeVars, pointVars, jsonVars, moreVars, lateVars>>
othersThanTube == <<curveVars, pointVars, jsonVars, moreVars, lateVars>>
othersThanPoint == <<curveVars, tubeVars, jsonVars, moreVars, lateVars>>
othersThanJSON == <<curveVars, tubeVars, pointVars, moreVars, lateVars>>
othersThanVertex ==
  <<curveVars, tubeVars, pointVars, jsonVars, geo, scene, trig, lateVars>>
othersThanSurface ==
  <<curveVars, tubeVars, pointVars, jsonVars, vtx, scene, trig, lateVars>>
othersThanModulation ==
  <<curveVars, tubeVars, pointVars, jsonVars, moreVars, undo, gui, mem>>
othersThanHistory ==
  <<curveVars, tubeVars, pointVars, jsonVars, moreVars, mod, gui, mem>>
othersThanGui ==
  <<curveVars, tubeVars, pointVars, jsonVars, moreVars, mod, undo, mem>>
othersThanMemory ==
  <<curveVars, tubeVars, pointVars, jsonVars, moreVars, mod, undo, gui>>

\* No curve object and no generator run, for the specifications of the other
\* components.
NoCurve ==
  /\ rev = "none" /\ cps = <<>> /\ curves = <<>>
  /\ last = [op |-> "none"] /\ interps = 0
  /\ indexI = 1 /\ indexR = 0 /\ cICP = FALSE /\ cRCP = FALSE

NoTube ==
  /\ axisSegments = 0 /\ crossSegments = 0 /\ pc = "none"
  /\ loopI = 0 /\ loopJ = 0
  /\ nCPsAfter = 0 /\ nNormals = 0 /\ nVertices = 0 /\ nUvs = 0
  /\ indices = <<>> /\ reads = {} /\ origin = "none"
  /\ buffers = [position |-> <<>>, normal |-> <<>>, uv |-> <<>>]

NoPoint == kind = "none" /\ point = [none |-> TRUE] /\ lastOp = "none"

NoJSON ==
  /\ target = "none" /\ subject = [none |-> TRUE]
  /\ data = [none |-> TRUE] /\ restored = [none |-> TRUE]

NoVertex == vtx = [none |-> TRUE]

NoSurface == geo = [none |-> TRUE]

NoScene == scene = [none |-> TRUE]

NoTrig == trig = [fn |-> "none"]

NoModulation == mod = [none |-> TRUE]

NoHistory == undo = [none |-> TRUE]

NoGui == gui = [none |-> TRUE]

NoMemory == mem = [none |-> TRUE]

NoLate == NoModulation /\ NoHistory /\ NoGui /\ NoMemory

-----------------------------------------------------------------------------
(* Bounds *)

MaxCps == 4        \* longest control-point list explored
MaxInterp == 1     \* interpolateCp calls explored per behaviour
MaxAxisSegments == 2    \* largest axisSegments explored
MaxCrossSegments == 4   \* largest crossSegments explored
MaxCoord == 1      \* largest coordinate typed into a control point's panel
MaxEvents == 2     \* panel events of a tube explored per behaviour

-----------------------------------------------------------------------------
(* Numbers and angles *)

Max(a, b) == IF a >= b THEN a ELSE b
Min(a, b) == IF a <= b THEN a ELSE b

\* Math.PI, in quarter turns.
Pi == 2

\* THREE.MathUtils.degToRad / radToDeg.
degToRad(d) == CASE d % 90 = 0 -> d \div 90
radToDeg(r) == r * 90

\* Math.cos / Math.sin of an angle in quarter turns.
Cos(r) == CASE r % 4 = 0 -> 1 [] r % 4 = 1 -> 0 [] r % 4 = 2 -> -1 [] r % 4 = 3 -> 0
Sin(r) == CASE r % 4 = 0 -> 0 [] r % 4 = 1 -> 1 [] r % 4 = 2 -> 0 [] r % 4 = 3 -> -1

\* Math.sqrt on perfect squares.
Sqrt(n) == CHOOSE r \in 0..n : r * r = n

\* Math.atan2(y, x) for a vector on a coordinate axis (zero arguments are +0).
Atan2(y, x) ==
  CASE y = 0 /\ x >= 0 -> 0
    [] y > 0 /\ x = 0 -> 1
    [] y = 0 /\ x < 0 -> Pi
    [] y < 0 /\ x = 0 -> -1

\* Math.atan2(-y, -x): negating a zero argument gives -0.
Atan2OfNegated(y, x) ==
  CASE y = 0 /\ x > 0 -> -Pi
    [] y = 0 /\ x = 0 -> -Pi
    [] y = 0 /\ x < 0 -> 0
    [] y > 0 /\ x = 0 -> -1
    [] y < 0 /\ x = 0 -> 1

\* divideScalar(2) on a coordinate.
Half(n) == CASE n % 2 = 0 -> n \div 2

-----------------------------------------------------------------------------
(* THREE.Vector2 *)

Vec2(x, y) == [x |-> x, y |-> y]
Add2(a, b) == Vec2(a.x + b.x, a.y + b.y)
Sub2(a, b) == Vec2(a.x - b.x, a.y - b.y)
Half2(a) == Vec2(Half(a.x), Half(a.y))
OnAxis2(v) == v.x = 0 \/ v.y = 0

-----------------------------------------------------------------------------
(* Circular: 2D polar coordinates, the angle in degrees *)

Circular(radius, angle) == [radius |-> radius, angle |-> angle]

Circular_x(c) == c.radius * Cos(degToRad(c.angle))
Circular_y(c) == c.radius * Sin(degToRad(c.angle))
Circular_toVector2(c) == Vec2(Circular_x(c), Circular_y(c))

Circular_setFromVector2(v) ==
  Circular(Sqrt(v.x * v.x + v.y * v.y), radToDeg(Atan2OfNegated(v.y, v.x) + Pi))

rotate180(angle) == IF angle < 180 THEN angle + 180 ELSE angle - 180

-----------------------------------------------------------------------------
(* ControlPoint2 *)

ControlPoint2(middlePos, leftPos, rightPos, isSyncRadius, isSyncAngle) ==
  [middlePos |-> middlePos,
   leftPos |-> leftPos,
   leftV |-> Sub2(leftPos, middlePos),
   leftC |-> Circular_setFromVector2(Sub2(leftPos, middlePos)),
   rightPos |-> rightPos,
   rightV |-> Sub2(rightPos, middlePos),
   rightC |-> Circular_setFromVector2(Sub2(rightPos, middlePos)),
   isSyncRadius |-> isSyncRadius,
   isSyncAngle |-> isSyncAngle]

\* syncLeftToRight copying length and direction whichever flag is set.
syncLeftToRight_both(cp) ==
  IF ~cp.isSyncRadius /\ ~cp.isSyncAngle THEN cp
  ELSE LET rC == Circular(cp.leftC.radius, rotate180(cp.leftC.angle))
           rV == Circular_toVector2(rC)
       IN [cp EXCEPT !.rightC = rC, !.rightV = rV, !.rightPos = Add2(cp.middlePos, rV)]

syncLeftToRight(cp) ==
  IF ~cp.isSyncRadius /\ ~cp.isSyncAngle THEN cp
  ELSE LET rC == Circular(IF cp.isSyncRadius THEN cp.leftC.radius ELSE cp.rightC.radius,
                          IF cp.isSyncAngle THEN rotate180(cp.leftC.angle) ELSE cp.rightC.angle)
           rV == Circular_toVector2(rC)
       IN [cp EXCEPT !.rightC = rC, !.rightV = rV, !.rightPos = Add2(cp.middlePos, rV)]

syncRightToLeft(cp) ==
  IF ~cp.isSyncRadius /\ ~cp.isSyncAngle THEN cp
  ELSE LET lC == Circular(IF cp.isSyncRadius THEN cp.rightC.radius ELSE cp.leftC.radius,
                          IF cp.isSyncAngle THEN rotate180(cp.rightC.angle) ELSE cp.leftC.angle)
           lV == Circular_toVector2(lC)
       IN [cp EXCEPT !.leftC = lC, !.leftV = lV, !.leftPos = Add2(cp.middlePos, lV)]

updateFromMiddlePos(cp) ==
  [cp EXCEPT !.leftPos = Add2(cp.middlePos, cp.leftV),
             !.rightPos = Add2(cp.middlePos, cp.rightV)]

updateFromLeftPos(cp) ==
  LET lV == Sub2(cp.leftPos, cp.middlePos)
  IN syncLeftToRight([cp EXCEPT !.leftV = lV, !.leftC = Circular_setFromVector2(lV)])

updateFromLeftC(cp) ==
  LET lV == Circular_toVector2(cp.leftC)
  IN syncLeftToRight([cp EXCEPT !.leftV = lV, !.leftPos = Add2(cp.middlePos, lV)])

updateFromRightPos(cp) ==
  LET rV == Sub2(cp.rightPos, cp.middlePos)
  IN syncRightToLeft([cp EXCEPT !.rightV = rV, !.rightC = Circular_setFromVector2(rV)])

updateFromRightC(cp) ==
  LET rV == Circular_toVector2(cp.rightC)
  IN syncRightToLeft([cp EXCEPT !.rightV = rV, !.rightPos = Add2(cp.middlePos, rV)])

-----------------------------------------------------------------------------
(* THREE.Vector3 and THREE.Spherical; phi and theta in quarter turns *)

Vec3(x, y, z) == [x |-> x, y |-> y, z |-> z]
Add3(a, b) == Vec3(a.x + b.x, a.y + b.y, a.z + b.z)
Sub3(a, b) == Vec3(a.x - b.x, a.y - b.y, a.z - b.z)
OnAxis3(v) == (v.x = 0 /\ v.y = 0) \/ (v.x = 0 /\ v.z = 0) \/ (v.y = 0 /\ v.z = 0)

Spherical(radius, phi, theta) == [radius |-> radius, phi |-> phi, theta |-> theta]

\* Math.acos(THREE.MathUtils.clamp(adjacent / hypotenuse, -1, 1)), hypotenuse > 0.
AcosOfRatio(adjacent, hypotenuse) ==
  CASE adjacent >= hypotenuse -> 0
    [] adjacent = 0 -> 1
    [] adjacent <= -hypotenuse -> Pi

\* Spherical.setFromVector3(v).
Spherical_setFromVector3(v) ==
  LET radius == Sqrt(v.x * v.x + v.y * v.y + v.z * v.z)
  IN IF radius = 0 THEN Spherical(0, 0, 0)
     ELSE Spherical(radius, AcosOfRatio(v.y, radius), Atan2(v.x, v.z))

\* Vector3.setFromSpherical(s).
Vector3_setFromSpherical(s) ==
  LET sinPhiRadius == Sin(s.phi) * s.radius
  IN Vec3(sinPhiRadius * Sin(s.theta), Cos(s.phi) * s.radius, sinPhiRadius * Cos(s.theta))

safeAcos(adjacent, hypotenuse) ==
  IF hypotenuse = 0 THEN 0 ELSE AcosOfRatio(adjacent, hypotenuse)

atan2In2PI(y, x) == Atan2OfNegated(y, x) + Pi

reverseInPI(angle) == Pi - angle

rotatePI(angle) == IF angle < Pi THEN angle + Pi ELSE angle - Pi

-----------------------------------------------------------------------------
(* ControlPoint3 *)

getA(v) ==
  Vec3(radToDeg(atan2In2PI(v.z, v.y)),
       radToDeg(atan2In2PI(v.x, v.z)),
       radToDeg(atan2In2PI(v.y, v.x)))

ControlPoint3(middlePos, upPos, downPos, isSyncRadius, isSyncAngle) ==
  [middlePos |-> middlePos,
   upPos |-> upPos,
   upV |-> Sub3(upPos, middlePos),
   upS |-> Spherical_setFromVector3(Sub3(upPos, middlePos)),
   upA |-> getA(Sub3(upPos, middlePos)),
   downPos |-> downPos,
   downV |-> Sub3(downPos, middlePos),
   downS |-> Spherical_setFromVector3(Sub3(downPos, middlePos)),
   downA |-> getA(Sub3(downPos, middlePos)),
   isSyncRadius |-> isSyncRadius,
   isSyncAngle |-> isSyncAngle]

\* syncUpToDown with the polar angle copied instead of reversed.
syncUpToDown_phiKept(cp) ==
  IF ~cp.isSyncRadius /\ ~cp.isSyncAngle THEN cp
  ELSE LET dS == Spherical(IF cp.isSyncRadius THEN cp.upS.radius ELSE cp.downS.radius,
                           IF cp.isSyncAngle THEN cp.upS.phi ELSE cp.downS.phi,
                           IF cp.isSyncAngle THEN rotatePI(cp.upS.theta) ELSE cp.downS.theta)
           dV == Vector3_setFromSpherical(dS)
       IN [cp EXCEPT !.downS = dS, !.downV = dV, !.downA = getA(dV),
                     !.downPos = Add3(cp.middlePos, dV)]

syncUpToDown(cp) ==
  IF ~cp.isSyncRadius /\ ~cp.isSyncAngle THEN cp
  ELSE LET dS == Spherical(IF cp.isSyncRadius THEN cp.upS.radius ELSE cp.downS.radius,
                           IF cp.isSyncAngle THEN reverseInPI(cp.upS.phi) ELSE cp.downS.phi,
                           IF cp.isSyncAngle THEN rotatePI(cp.upS.theta) ELSE cp.downS.theta)
           dV == Vector3_setFromSpherical(dS)
       IN [cp EXCEPT !.downS = dS, !.downV = dV, !.downA = getA(dV),
                     !.downPos = Add3(cp.middlePos, dV)]

syncDownToUp(cp) ==
  IF ~cp.isSyncRadius /\ ~cp.isSyncAngle THEN cp
  ELSE LET uS == Spherical(IF cp.isSyncRadius THEN cp.downS.radius ELSE cp.upS.radius,
                           IF cp.isSyncAngle THEN reverseInPI(cp.downS.phi) ELSE cp.upS.phi,
                           IF cp.isSyncAngle THEN rotatePI(cp.downS.theta) ELSE cp.upS.theta)
           uV == Vector3_setFromSpherical(uS)
       IN [cp EXCEPT !.upS = uS, !.upV = uV, !.upA = getA(uV),
                     !.upPos = Add3(cp.middlePos, uV)]

Cp3_updateFromMiddlePos(cp) ==
  [cp EXCEPT !.upPos = Add3(cp.middlePos, cp.upV),
             !.downPos = Add3(cp.middlePos, cp.downV)]

updateFromUpPos(cp) ==
  LET uV == Sub3(cp.upPos, cp.middlePos)
  IN syncUpToDown([cp EXCEPT !.upV = uV, !.upS = Spherical_setFromVector3(uV),
                             !.upA = getA(uV)])

\* updateFromUpS leaving upPos as it was.
updateFromUpS_posKept(cp) ==
  LET uV == Vector3_setFromSpherical(cp.upS)
  IN syncUpToDown([cp EXCEPT !.upV = uV, !.upA = getA(uV)])

updateFromUpS(cp) ==
  LET uV == Vector3_setFromSpherical(cp.upS)
  IN syncUpToDown([cp EXCEPT !.upV = uV, !.upA = getA(uV),
                             !.upPos = Add3(cp.middlePos, uV)])

updateFromUpAx(cp) ==
  LET x == cp.upV.x
      r_yz == Sqrt(cp.upS.radius * cp.upS.radius - x * x)
      Ax == degToRad(cp.upA.x)
      y == r_yz * Cos(Ax)
      z == r_yz * Sin(Ax)
  IN updateFromUpS([cp EXCEPT !.upS.phi = safeAcos(y, cp.upS.radius),
                              !.upS.theta = atan2In2PI(x, z)])

updateFromUpAy(cp) ==
  updateFromUpS([cp EXCEPT !.upS.theta = degToRad(cp.upA.y)])

updateFromUpAz(cp) ==
  LET z == cp.upV.z
      r_xy == Sqrt(cp.upS.radius * cp.upS.radius - z * z)
      Az == degToRad(cp.upA.z)
      x == r_xy * Cos(Az)
      y == r_xy * Sin(Az)
  IN updateFromUpS([cp EXCEPT !.upS.phi = safeAcos(y, cp.upS.radius),
                              !.upS.theta = atan2In2PI(x, z)])

updateFromDownPos(cp) ==
  LET dV == Sub3(cp.downPos, cp.middlePos)
  IN syncDownToUp([cp EXCEPT !.downV = dV, !.downS = Spherical_setFromVector3(dV),
                             !.downA = getA(dV)])

updateFromDownS(cp) ==
  LET dV == Vector3_setFromSpherical(cp.downS)
  IN syncDownToUp([cp EXCEPT !.downV = dV, !.downA = getA(dV),
                             !.downPos = Add3(cp.middlePos, dV)])

updateFromDownAx(cp) ==
  LET x == cp.downV.x
      r_yz == Sqrt(cp.downS.radius * cp.downS.radius - x * x)
      Ax == degToRad(cp.downA.x)
      y == r_yz * Cos(Ax)
      z == r_yz * Sin(Ax)
  IN updateFromDownS([cp EXCEPT !.downS.phi = safeAcos(y, cp.downS.radius),
                                !.downS.theta = atan2In2PI(x, z)])

updateFromDownAy(cp) ==
  updateFromDownS([cp EXCEPT !.downS.theta = degToRad(cp.downA.y)])

updateFromDownAz(cp) ==
  LET z == cp.downV.z
      r_xy == Sqrt(cp.downS.radius * cp.downS.radius - z * z)
      Az == degToRad(cp.downA.z)
      x == r_xy * Cos(Az)
      y == r_xy * Sin(Az)
  IN updateFromDownS([cp EXCEPT !.downS.phi = safeAcos(y, cp.downS.radius),
                                !.downS.theta = atan2In2PI(x, z)])

-----------------------------------------------------------------------------
(* Curve2: the control-point list and its Bezier segments *)

\* One lattice step is 1 / Unit: every interpolateCp divides by up to 8.
Unit == 8 ^ MaxInterp

\* An index argument: a JavaScript number that is an integer or not.
Idx(n) == [isInteger |-> TRUE, n |-> n]
NotInteger == [isInteger |-> FALSE, n |-> 1]      \* 1.5, NaN, "1", undefined

\* What createCurve returns after its early return.
Undefined == [undefined |-> TRUE]

\* No control point passed (updateCp's default argument).
Null == [null |-> TRUE]

\* Array.prototype.splice(start, deleteCount, ...items), returning the array.
Splice(s, start, deleteCount, items) ==
  LET n == Len(s)
      st == IF start < 0 THEN Max(n + start, 0) ELSE Min(start, n)
      dc == Min(Max(deleteCount, 0), n - st)
  IN SubSeq(s, 1, st) \o items \o SubSeq(s, st + dc + 1, n)

\* new THREE.CubicBezierCurve(v0, v1, v2, v3) from two neighbouring points.
CubicBezierCurve(cpa, cpb) ==
  [v0 |-> cpa.middlePos, v1 |-> cpa.rightPos, v2 |-> cpb.leftPos, v3 |-> cpb.middlePos]

\* Curve2.isInvalidIndex(index, max) (the method of the incremental revision).
Curve2_isInvalidIndex(index, max) ==
  IF ~index.isInteger THEN TRUE
  ELSE index.n < 0 \/ index.n > max

\* isInvalidIndex(index, min, max) of math/utils.js.
isInvalidIndex(index, min, max) ==
  IF ~index.isInteger THEN TRUE
  ELSE index.n < min \/ index.n > max

\* Curve2.createCurve(index) on the list s.
createCurve(s, index) ==
  IF Curve2_isInvalidIndex(Idx(index), Len(s) - 2) THEN Undefined
  ELSE CubicBezierCurve(s[index + 1], s[index + 2])

\* Curve2.fillAllCurves().
fillAllCurves(s) == [i \in 1..Max(Len(s) - 1, 0) |-> createCurve(s, i - 1)]

\* Curve2.updateCurves().
updateCurves(s) == [i \in 1..Max(Len(s) - 1, 0) |-> CubicBezierCurve(s[i], s[i + 1])]

\* CurvePath.updateArcLengths() calls getLength() on every segment.
updateArcLengthsThrows(cs) == \E i \in 1..Len(cs) : cs[i] = Undefined

\* The result of a call: the lists, whether console.error was called, and
\* whether the call ended by throwing.
Outcome(s, cs, reported, threw) ==
  [cps |-> s, curves |-> cs, reported |-> reported, threw |-> threw]

(* ---- the incremental revision: addCp / removeCp / updateCp keep curves ---- *)

Fill_addCp(s, cs, index, cp) ==
  IF Curve2_isInvalidIndex(index, Len(s)) THEN Outcome(s, cs, TRUE, FALSE)
  ELSE LET i == index.n
           s1 == Splice(s, i, 0, <<cp>>)
           cs1 == IF i = 0
                    THEN Splice(cs, 0, 0, <<createCurve(s1, 0)>>)
                  ELSE IF i = Len(s1) - 1
                    THEN Splice(cs, i - 1, 0, <<createCurve(s1, i - 1)>>)
                  ELSE Splice(cs, i - 1, 1, <<createCurve(s1, i - 1), createCurve(s1, i)>>)
       IN Outcome(s1, cs1, i = 0 /\ Len(s1) < 2, updateArcLengthsThrows(cs1))

Fill_removeCp(s, cs, index) ==
  IF Curve2_isInvalidIndex(index, Len(s) - 1) THEN Outcome(s, cs, TRUE, FALSE)
  ELSE LET i == index.n
           s1 == Splice(s, i, 1, <<>>)
           cs1 == IF i = 0
                    THEN Splice(cs, 0, 1, <<>>)
                  ELSE IF i = Len(s1)
                    THEN Splice(cs, i - 1, 1, <<>>)
                  ELSE Splice(cs, i - 1, 2, <<createCurve(s1, i - 1)>>)
       IN Outcome(s1, cs1, FALSE, updateArcLengthsThrows(cs1))

Fill_updateCp(s, cs, index, cp) ==
  IF Curve2_isInvalidIndex(index, Len(s) - 1) THEN Outcome(s, cs, TRUE, FALSE)
  ELSE LET i == index.n
           s1 == IF cp = Null THEN s ELSE [s EXCEPT ![i + 1] = cp]
           cs1 == IF i = 0
                    THEN Splice(cs, 0, 1, <<createCurve(s1, 0)>>)
                  ELSE IF i = Len(s1) - 1
                    THEN Splice(cs, i - 1, 1, <<createCurve(s1, i - 1)>>)
                  ELSE Splice(cs, i - 1, 2, <<createCurve(s1, i - 1), createCurve(s1, i)>>)
       IN Outcome(s1, cs1, i = 0 /\ Len(s1) < 2, updateArcLengthsThrows(cs1))

(* ---- the plain revision: addCp / removeCp / updateCp touch cps only ---- *)

Plain_addCp(s, cs, index, cp) ==
  IF Curve2_isInvalidIndex(index, Len(s)) THEN Outcome(s, cs, TRUE, FALSE)
  ELSE Outcome(Splice(s, index.n, 0, <<cp>>), cs, FALSE, FALSE)

Plain_removeCp(s, cs, index) ==
  IF Curve2_isInvalidIndex(index, Len(s) - 1) THEN Outcome(s, cs, TRUE, FALSE)
  ELSE Outcome(Splice(s, index.n, 1, <<>>), cs, FALSE, FALSE)

Plain_updateCp(s, cs, index, cp) ==
  IF Curve2_isInvalidIndex(index, Len(s) - 1) THEN Outcome(s, cs, TRUE, FALSE)
  ELSE Outcome([s EXCEPT ![index.n + 1] = cp], cs, FALSE, FALSE)

(* ---- the panel revision: addCpToFirst / addCpToLast / interpolateCp / removeCp ---- *)

\* new ControlPoint2() with its default arguments.
DefaultControlPoint2 ==
  ControlPoint2(Vec2(0, 0), Vec2(-Unit, 0), Vec2(Unit, 0), TRUE, TRUE)

addCpToFirst(s) == IF Len(s) # 0 THEN <<s[1]>> \o s ELSE <<DefaultControlPoint2>>

addCpToLast(s) == IF Len(s) # 0 THEN s \o <<s[Len(s)]>> ELSE <<DefaultControlPoint2>>

\* The body of interpolateCp(index) after its index check.
interpolate(s, index) ==
  LET s1 == Splice(s, index, 0, <<s[index + 1]>>)
      cp1 == s1[index]
      cp2 == s1[index + 1]
      cp3 == s1[index + 2]
      centerPos == Half2(Add2(cp1.rightPos, cp3.leftPos))
      r1 == Half2(Add2(cp1.middlePos, cp1.rightPos))
      l3 == Half2(Add2(cp3.leftPos, cp3.middlePos))
      l2 == Half2(Add2(r1, centerPos))
      r2 == Half2(Add2(centerPos, l3))
      m2 == Half2(Add2(l2, r2))
      new1 == updateFromRightPos([cp1 EXCEPT !.rightPos = r1])
      new2 == updateFromRightPos(updateFromLeftPos(
                [cp2 EXCEPT !.leftPos = l2, !.rightPos = r2, !.middlePos = m2]))
      new3 == updateFromLeftPos([cp3 EXCEPT !.leftPos = l3])
  IN [s1 EXCEPT ![index] = new1, ![index + 1] = new2, ![index + 2] = new3]

interpolateCp(s, cs, index) ==
  IF isInvalidIndex(index, 1, Len(s) - 1) THEN Outcome(s, cs, TRUE, FALSE)
  ELSE Outcome(interpolate(s, index.n), cs, FALSE, FALSE)

\* removeCp without its index check: splice takes a negative start from the end.
removeCp_unchecked(s, cs, index) ==
  Outcome(Splice(s, index.n, 1, <<>>), cs, FALSE, FALSE)

removeCp(s, cs, index) ==
  IF isInvalidIndex(index, 0, Len(s) - 1) THEN Outcome(s, cs, TRUE, FALSE)
  ELSE Outcome(Splice(s, index.n, 1, <<>>), cs, FALSE, FALSE)

\* The getters indexListR and indexListI.
indexListR(s) == 0..(Len(s) - 1)
\* indexListI as the whole of indexListR (slice(0)).
indexListI_whole(s) == 0..(Len(s) - 1)
indexListI(s) == 1..(Len(s) - 1)

-----------------------------------------------------------------------------
(* The curve as a state machine *)

IndexArgs == {Idx(n) : n \in -1..(MaxCps + 1)} \cup {NotInteger}

\* Control points on the x axis, one per combination of the sync flags.
CpA == DefaultControlPoint2
CpB == ControlPoint2(Vec2(4 * Unit, 0), Vec2(3 * Unit, 0), Vec2(6 * Unit, 0), FALSE, FALSE)
CpC == ControlPoint2(Vec2(8 * Unit, 0), Vec2(7 * Unit, 0), Vec2(10 * Unit, 0), FALSE, TRUE)
CpD == ControlPoint2(Vec2(12 * Unit, 0), Vec2(11 * Unit, 0), Vec2(11 * Unit, 0), TRUE, FALSE)
CpPool == {CpA, CpB, CpC}

\* The end points of an arch: vertical handles, the segment bulging upwards.
ArchL == ControlPoint2(Vec2(0, 0), Vec2(0, -2 * Unit), Vec2(0, 2 * Unit), TRUE, TRUE)
ArchR(sr, sa) ==
  ControlPoint2(Vec2(4 * Unit, 0), Vec2(4 * Unit, 2 * Unit), Vec2(4 * Unit, -2 * Unit), sr, sa)

ListsUpTo(S, n) == UNION {[1..k -> S] : k \in 0..n}

\* The interpolation of segment index - 1 stays on the lattice with
\* axis-parallel handles.
Representable(s, index) ==
  LET cp1 == s[index]
      cp3 == s[index + 1]
      Even2(v) == v.x % 2 = 0 /\ v.y % 2 = 0
      c0 == Add2(cp1.rightPos, cp3.leftPos)
      r0 == Add2(cp1.middlePos, cp1.rightPos)
      l0 == Add2(cp3.leftPos, cp3.middlePos)
  IN /\ Even2(c0) /\ Even2(r0) /\ Even2(l0)
     /\ LET l1 == Add2(Half2(r0), Half2(c0))
            r1 == Add2(Half2(c0), Half2(l0))
        IN /\ Even2(l1) /\ Even2(r1)
           /\ Even2(Add2(Half2(l1), Half2(r1)))
           /\ OnAxis2(Sub2(Half2(r0), cp1.middlePos))
           /\ OnAxis2(Sub2(Half2(l0), cp3.middlePos))
           /\ OnAxis2(Sub2(Half2(l1), Half2(Add2(Half2(l1), Half2(r1)))))
           /\ OnAxis2(Sub2(Half2(r1), Half2(Add2(Half2(l1), Half2(r1)))))

Called(op, index, out) ==
  last' = [op |-> op, index |-> index, n |-> Len(cps),
           reported |-> out.reported, threw |-> out.threw]

NoCall == [op |-> "new", index |-> Idx(0), n |-> 0, reported |-> FALSE, threw |-> FALSE]

panelVars == <<indexI, indexR, cICP, cRCP>>

\* A call of a method of the curve object itself.
Method(r, op, index, out) ==
  /\ rev = r
  /\ Len(out.cps) <= MaxCps
  /\ cps' = out.cps
  /\ curves' = out.curves
  /\ Called(op, index, out)
  /\ UNCHANGED <<rev, panelVars, othersThanCurve>>

FillAddCp ==
  \E index \in IndexArgs, cp \in CpPool :
    /\ Method("fill", "addCp", index, Fill_addCp(cps, curves, index, cp))
    /\ UNCHANGED interps

FillRemoveCp ==
  \E index \in IndexArgs :
    /\ Method("fill", "removeCp", index, Fill_removeCp(cps, curves, index))
    /\ UNCHANGED interps

FillUpdateCp ==
  \E index \in IndexArgs, cp \in CpPool \cup {Null} :
    /\ Method("fill", "updateCp", index, Fill_updateCp(cps, curves, index, cp))
    /\ UNCHANGED interps

PlainAddCp ==
  \E index \in IndexArgs, cp \in CpPool :
    /\ Method("plain", "addCp", index, Plain_addCp(cps, curves, index, cp))
    /\ UNCHANGED interps

PlainRemoveCp ==
  \E index \in IndexArgs :
    /\ Method("plain", "removeCp", index, Plain_removeCp(cps, curves, index))
    /\ UNCHANGED interps

PlainUpdateCp ==
  \E index \in IndexArgs, cp \in CpPool :
    /\ Method("plain", "updateCp", index, Plain_updateCp(cps, curves, index, cp))
    /\ UNCHANGED interps

GuiAddCpToFirst ==
  /\ Method("gui", "addCpToFirst", Idx(0), Outcome(addCpToFirst(cps), curves, FALSE, FALSE))
  /\ UNCHANGED interps

GuiAddCpToLast ==
  /\ Method("gui", "addCpToLast", Idx(0), Outcome(addCpToLast(cps), curves, FALSE, FALSE))
  /\ UNCHANGED interps

GuiInterpolateCp ==
  \E index \in IndexArgs :
    LET invalid == isInvalidIndex(index, 1, Len(cps) - 1)
    IN /\ rev = "gui"
       /\ IF invalid THEN TRUE ELSE interps < MaxInterp /\ Representable(cps, index.n)
       /\ Method("gui", "interpolateCp", index, interpolateCp(cps, curves, index))
       /\ interps' = IF invalid THEN interps ELSE interps + 1

GuiRemoveCp ==
  \E index \in IndexArgs :
    /\ Method("gui", "removeCp", index, removeCp(cps, curves, index))
    /\ UNCHANGED interps

(* ---- the panel: every handler ends with updateIfCpsLengthChanges ---- *)

\* updateEnabled, updateOptions and updateCurves after the lists became s.
updateIfCpsLengthChanges(s) ==
  /\ cICP' = (indexI \in indexListI(s))
  /\ cRCP' = (indexR \in indexListR(s))
  /\ curves' = updateCurves(s)

Handler(op, index, out) ==
  /\ rev = "panel"
  /\ Len(out.cps) <= MaxCps
  /\ cps' = out.cps
  /\ updateIfCpsLengthChanges(out.cps)
  /\ Called(op, index, out)
  /\ UNCHANGED <<rev, indexI, indexR, othersThanCurve>>

PanelAddCpToFirst ==
  /\ Handler("addCpToFirst", Idx(0), Outcome(addCpToFirst(cps), curves, FALSE, FALSE))
  /\ UNCHANGED interps

PanelAddCpToLast ==
  /\ Handler("addCpToLast", Idx(0), Outcome(addCpToLast(cps), curves, FALSE, FALSE))
  /\ UNCHANGED interps

PanelInterpolateCp ==
  LET invalid == isInvalidIndex(Idx(indexI), 1, Len(cps) - 1)
  IN /\ rev = "panel"
     /\ cICP
     /\ IF invalid THEN TRUE ELSE interps < MaxInterp /\ Representable(cps, indexI)
     /\ Handler("interpolateCp", Idx(indexI), interpolateCp(cps, curves, Idx(indexI)))
     /\ interps' = IF invalid THEN interps ELSE interps + 1

PanelRemoveCp ==
  /\ rev = "panel"
  /\ cRCP
  /\ Handler("removeCp", Idx(indexR), removeCp(cps, curves, Idx(indexR)))
  /\ UNCHANGED interps

\* Choosing an entry of the indexI dropdown; its onChange is updateEnabled.
PanelSetIndexI ==
  \E v \in indexListI(cps) :
    /\ rev = "panel"
    /\ indexI' = v
    /\ cICP' = (v \in indexListI(cps))
    /\ cRCP' = (indexR \in indexListR(cps))
    /\ UNCHANGED <<rev, cps, curves, last, interps, indexR, othersThanCurve>>

PanelSetIndexR ==
  \E v \in indexListR(cps) :
    /\ rev = "panel"
    /\ indexR' = v
    /\ cICP' = (indexI \in indexListI(cps))
    /\ cRCP' = (v \in indexListR(cps))
    /\ UNCHANGED <<rev, cps, curves, last, interps, indexI, othersThanCurve>>

InitCurve ==
  /\ rev \in {"fill", "plain", "gui", "panel"}
  /\ cps \in IF rev \in {"fill", "plain"}
               THEN ListsUpTo(CpPool, 2)
               ELSE {<<>>, <<CpA>>, <<CpA, CpC>>, <<CpB, CpD>>, <<CpA, CpB, CpC>>}
                      \cup {<<ArchL, ArchR(sr, sa)>> : sr \in BOOLEAN, sa \in BOOLEAN}
  /\ curves = IF rev = "fill" THEN fillAllCurves(cps) ELSE updateCurves(cps)
  /\ last = NoCall
  /\ interps = 0
  /\ indexI = 1
  /\ indexR = 0
  /\ cICP = IF rev = "panel" THEN indexI \in indexListI(cps) ELSE FALSE
  /\ cRCP = IF rev = "panel" THEN indexR \in indexListR(cps) ELSE FALSE
  /\ NoTube
  /\ NoPoint
  /\ NoJSON
  /\ NoVertex
  /\ NoSurface
  /\ NoScene
  /\ NoTrig
  /\ NoLate

NextCurve ==
  \/ FillAddCp \/ FillRemoveCp \/ FillUpdateCp
  \/ PlainAddCp \/ PlainRemoveCp \/ PlainUpdateCp
  \/ GuiAddCpToFirst \/ GuiAddCpToLast \/ GuiInterpolateCp \/ GuiRemoveCp
  \/ PanelAddCpToFirst \/ PanelAddCpToLast \/ PanelInterpolateCp \/ PanelRemoveCp
  \/ PanelSetIndexI \/ PanelSetIndexR

SpecCurve == InitCurve /\ [][NextCurve]_vars

-----------------------------------------------------------------------------
(* TubeBaseGeometry: the buffers built by generateBufferData *)

\* The smallest crossSegments the tube's panel lets through.
MinCrossSegments == 3

\* The number of grid vertices, (axisSegments + 1) rings of (crossSegments + 1).
GridSize(a, c) == (a + 1) * (c + 1)

\* The names and indices of the CPsAfter entries read to correct the normal
\* of vertex (i, j).
NeighbourReads_noBoundary(a, c, i, j) ==
  {[name |-> "n22", n |-> (c + 1) * i + j],
   [name |-> "n12", n |-> (c + 1) * (i - 1) + j],
   [name |-> "n32", n |-> (c + 1) * (i + 1) + j],
   [name |-> "n21", n |-> (c + 1) * i + (j - 1)]}

NeighbourReads(a, c, i, j) ==
  LET n0 == (c + 1) * i + j
      n12 == [name |-> "n12", n |-> (c + 1) * (i - 1) + j]
      n32 == [name |-> "n32", n |-> (c + 1) * (i + 1) + j]
      n22 == [name |-> "n22", n |-> n0]
      n2x == IF j = 0 THEN [name |-> "n23", n |-> (c + 1) * i + (j + 1)]
                      ELSE [name |-> "n21", n |-> (c + 1) * i + (j - 1)]
  IN IF i = 0 THEN {n22, n32, n2x}
     ELSE IF i = a THEN {n12, n22, n2x}
     ELSE {n12, n22, n2x, n32}

\* The two triangles generateIndices pushes for the quad (i, j).
faces_nextRing(c, i, j) ==
  <<(c + 1) * i + (j - 1), (c + 1) * (i + 1) + (j - 1), (c + 1) * i + j,
    (c + 1) * (i + 1) + (j - 1), (c + 1) * (i + 1) + j, (c + 1) * i + j>>

\* The two triangles with the second one wound the other way.
faces_flipped(c, i, j) ==
  LET fa == (c + 1) * (i - 1) + (j - 1)
      fb == (c + 1) * i + (j - 1)
      fc == (c + 1) * i + j
      fd == (c + 1) * (i - 1) + j
  IN <<fa, fb, fd, fb, fd, fc>>

faces(c, i, j) ==
  LET fa == (c + 1) * (i - 1) + (j - 1)
      fb == (c + 1) * i + (j - 1)
      fc == (c + 1) * i + j
      fd == (c + 1) * (i - 1) + j
  IN <<fa, fb, fd, fb, fc, fd>>

\* The end of one iteration of "for i = first..axisSegments, for j =
\* first..crossSegments": the next iteration, or the loop named after.
Iterate(first, after) ==
  IF loopJ < crossSegments
    THEN loopI' = loopI /\ loopJ' = loopJ + 1 /\ pc' = pc
  ELSE IF loopI < axisSegments
    THEN loopI' = loopI + 1 /\ loopJ' = first /\ pc' = pc
  ELSE /\ loopI' = (IF after = "indices" THEN 1 ELSE 0)
       /\ loopJ' = (IF after = "indices" THEN 1 ELSE 0)
       /\ pc' = after

\* The buffers, one entry per vertex (three numbers of normals and vertices,
\* two of uvs): the grid vertex whose value was pushed, and for a uv the value.
EmptyBuffers == [position |-> <<>>, normal |-> <<>>, uv |-> <<>>]

\* A fraction n / d as the pair of its terms.
Ratio(n, d) == <<n, d>>

\* generateUVs: the pair pushed for grid vertex (i, j).
uvOf_swapped(a, c, i, j) == [x |-> Ratio(j, c), y |-> Ratio(i, a)]

uvOf(a, c, i, j) == [x |-> Ratio(i, a), y |-> Ratio(j, c)]

\* generateSegment, first loop: one normal and one vertex per grid vertex.
GenerateSegmentStep ==
  /\ pc = "segment"
  /\ nCPsAfter' = nCPsAfter + 1
  /\ nNormals' = nNormals + 3
  /\ nVertices' = nVertices + 3
  /\ buffers' = [buffers EXCEPT
       !.normal = Append(@, [i |-> loopI, j |-> loopJ, pass |-> 1]),
       !.position = Append(@, [i |-> loopI, j |-> loopJ])]
  /\ Iterate(0, "correct")
  /\ UNCHANGED <<axisSegments, crossSegments, nUvs, indices, reads, origin,
                 othersThanTube>>

\* generateSegment, second loop: the normal of vertex (i, j) corrected from its
\* neighbours in CPsAfter; reading a missing entry ends the constructor with a
\* TypeError.
CorrectNormalStep ==
  /\ pc = "correct"
  /\ reads' = NeighbourReads(axisSegments, crossSegments, loopI, loopJ)
  /\ IF \E r \in reads' : r.n \notin 0..(nCPsAfter - 1)
       THEN pc' = "threw" /\ UNCHANGED <<loopI, loopJ>>
       ELSE /\ Iterate(0, "uvs")
  /\ buffers' =
       IF pc' = "threw" THEN buffers
       ELSE LET n0 == (crossSegments + 1) * loopI + loopJ
            IN [buffers EXCEPT !.normal[n0 + 1] =
                  [i |-> loopI, j |-> loopJ, pass |-> 2]]
  /\ UNCHANGED <<axisSegments, crossSegments, nCPsAfter, nNormals, nVertices,
                 nUvs, indices, origin, othersThanTube>>

GenerateUVsStep ==
  /\ pc = "uvs"
  /\ nUvs' = nUvs + 2
  /\ buffers' = [buffers EXCEPT
       !.uv = Append(@, uvOf(axisSegments, crossSegments, loopI, loopJ))]
  /\ Iterate(0, "indices")
  /\ UNCHANGED <<axisSegments, crossSegments, nCPsAfter, nNormals, nVertices,
                 indices, reads, origin, othersThanTube>>

GenerateIndicesStep ==
  /\ pc = "indices"
  /\ indices' = indices \o faces(crossSegments, loopI, loopJ)
  /\ Iterate(1, "done")
  /\ UNCHANGED <<axisSegments, crossSegments, nCPsAfter, nNormals, nVertices,
                 nUvs, reads, origin, buffers, othersThanTube>>

\* new TubeBaseGeometry(..., axisSegments, crossSegments, ...): empty buffers.
Construct(a, c) ==
  /\ axisSegments = a /\ crossSegments = c
  /\ pc = "segment" /\ loopI = 0 /\ loopJ = 0
  /\ nCPsAfter = 0 /\ nNormals = 0 /\ nVertices = 0 /\ nUvs = 0
  /\ indices = <<>> /\ reads = {} /\ buffers = EmptyBuffers

\* A change of axisSegments or crossSegments in the panel: update() builds a
\* new geometry.
Regenerate ==
  /\ pc = "done"
  /\ \E a \in 1..MaxAxisSegments, c \in MinCrossSegments..MaxCrossSegments :
       /\ <<a, c>> # <<axisSegments, crossSegments>>
       /\ axisSegments' = a /\ crossSegments' = c
  /\ pc' = "segment" /\ loopI' = 0 /\ loopJ' = 0
  /\ nCPsAfter' = 0 /\ nNormals' = 0 /\ nVertices' = 0 /\ nUvs' = 0
  /\ indices' = <<>> /\ reads' = {} /\ buffers' = EmptyBuffers
  /\ origin' = "panel"
  /\ UNCHANGED othersThanTube

InitTube ==
  /\ \E a \in 1..MaxAxisSegments, c \in MinCrossSegments..MaxCrossSegments : Construct(a, c)
  /\ origin = "constructor"
  /\ NoCurve
  /\ NoPoint
  /\ NoJSON
  /\ NoVertex
  /\ NoSurface
  /\ NoScene
  /\ NoTrig
  /\ NoLate

NextTube ==
  \/ GenerateSegmentStep \/ CorrectNormalStep \/ GenerateUVsStep
  \/ GenerateIndicesStep \/ Regenerate

SpecTube == InitTube /\ [][NextTube]_vars

-----------------------------------------------------------------------------
(* A control point edited through its panel: every controller writes one
   field and its onChange runs the matching updateFrom function *)

Coords == (-MaxCoord)..MaxCoord
MiddleCoords == {0, 1}
Radii == 0..MaxCoord
Angles == {0, 90, 180, 270, 360}

\* The ControlPoint2 panel clamps positions to [-1, 1] and radii to [0, 1].
Cp2Coords == {v \in Coords : -1 <= v /\ v <= 1}
Cp2Radii == {r \in Radii : r <= 1}

Updated(op, p) ==
  /\ point' = p
  /\ lastOp' = op
  /\ UNCHANGED <<kind, othersThanPoint>>

Cp3EditMiddlePos ==
  \E k \in {"x"}, v \in MiddleCoords :
    /\ kind = "cp3"
    /\ Updated(lastOp,
               Cp3_updateFromMiddlePos([point EXCEPT !.middlePos[k] = v]))

Cp3EditUpPos ==
  \E k \in {"x", "y", "z"}, v \in Coords :
    /\ kind = "cp3"
    /\ OnAxis3(Sub3([point.upPos EXCEPT ![k] = v], point.middlePos))
    /\ Updated("up", updateFromUpPos([point EXCEPT !.upPos[k] = v]))

Cp3EditUpRadius ==
  \E r \in Radii :
    /\ kind = "cp3"
    /\ Updated("up", updateFromUpS([point EXCEPT !.upS.radius = r]))

Cp3EditUpAx ==
  \E a \in Angles :
    /\ kind = "cp3"
    /\ Updated("up", updateFromUpAx([point EXCEPT !.upA.x = a]))

Cp3EditUpAy ==
  \E a \in Angles :
    /\ kind = "cp3"
    /\ Updated("up", updateFromUpAy([point EXCEPT !.upA.y = a]))

Cp3EditUpAz ==
  \E a \in Angles :
    /\ kind = "cp3"
    /\ Updated("up", updateFromUpAz([point EXCEPT !.upA.z = a]))

Cp3EditDownPos ==
  \E k \in {"x", "y", "z"}, v \in Coords :
    /\ kind = "cp3"
    /\ OnAxis3(Sub3([point.downPos EXCEPT ![k] = v], point.middlePos))
    /\ Updated("down", updateFromDownPos([point EXCEPT !.downPos[k] = v]))

Cp3EditDownRadius ==
  \E r \in Radii :
    /\ kind = "cp3"
    /\ Updated("down", updateFromDownS([point EXCEPT !.downS.radius = r]))

Cp3EditDownAx ==
  \E a \in Angles :
    /\ kind = "cp3"
    /\ Updated("down", updateFromDownAx([point EXCEPT !.downA.x = a]))

Cp3EditDownAy ==
  \E a \in Angles :
    /\ kind = "cp3"
    /\ Updated("down", updateFromDownAy([point EXCEPT !.downA.y = a]))

Cp3EditDownAz ==
  \E a \in Angles :
    /\ kind = "cp3"
    /\ Updated("down", updateFromDownAz([point EXCEPT !.downA.z = a]))

Cp2EditMiddlePos ==
  \E k \in {"x"}, v \in MiddleCoords :
    /\ kind = "cp2"
    /\ Updated(lastOp,
               updateFromMiddlePos([point EXCEPT !.middlePos[k] = v]))

Cp2EditLeftPos ==
  \E k \in {"x", "y"}, v \in Cp2Coords :
    /\ kind = "cp2"
    /\ OnAxis2(Sub2([point.leftPos EXCEPT ![k] = v], point.middlePos))
    /\ Updated("left", updateFromLeftPos([point EXCEPT !.leftPos[k] = v]))

Cp2EditLeftC ==
  \E r \in Cp2Radii \cup {-1}, a \in Angles \cup {-1} :
    /\ kind = "cp2"
    /\ (r = -1) # (a = -1)
    /\ Updated("left",
               updateFromLeftC(IF a = -1 THEN [point EXCEPT !.leftC.radius = r]
                                         ELSE [point EXCEPT !.leftC.angle = a]))

Cp2EditRightPos ==
  \E k \in {"x", "y"}, v \in Cp2Coords :
    /\ kind = "cp2"
    /\ OnAxis2(Sub2([point.rightPos EXCEPT ![k] = v], point.middlePos))
    /\ Updated("right", updateFromRightPos([point EXCEPT !.rightPos[k] = v]))

Cp2EditRightC ==
  \E r \in Cp2Radii \cup {-1}, a \in Angles \cup {-1} :
    /\ kind = "cp2"
    /\ (r = -1) # (a = -1)
    /\ Updated("right",
               updateFromRightC(IF a = -1 THEN [point EXCEPT !.rightC.radius = r]
                                          ELSE [point EXCEPT !.rightC.angle = a]))

\* The two checkboxes have no onChange: the flag changes and nothing else.
ToggleSyncRadius ==
  /\ kind \in {"cp2", "cp3"}
  /\ Updated("flag", [point EXCEPT !.isSyncRadius = ~@])

ToggleSyncAngle ==
  /\ kind \in {"cp2", "cp3"}
  /\ Updated("flag", [point EXCEPT !.isSyncAngle = ~@])

InitPoint ==
  /\ kind \in {"cp2", "cp3"}
  /\ \E sr \in BOOLEAN, sa \in BOOLEAN :
       point = IF kind = "cp2"
                 THEN ControlPoint2(Vec2(0, 0), Vec2(-1, 0), Vec2(1, 0), sr, sa)
                 ELSE ControlPoint3(Vec3(0, 0, 0), Vec3(0, 1, 0), Vec3(0, -1, 0), sr, sa)
  /\ lastOp = "new"
  /\ NoCurve
  /\ NoTube
  /\ NoJSON
  /\ NoVertex
  /\ NoSurface
  /\ NoScene
  /\ NoTrig
  /\ NoLate

NextPoint ==
  \/ Cp3EditMiddlePos
  \/ Cp3EditUpPos \/ Cp3EditUpRadius \/ Cp3EditUpAx \/ Cp3EditUpAy \/ Cp3EditUpAz
  \/ Cp3EditDownPos \/ Cp3EditDownRadius \/ Cp3EditDownAx \/ Cp3EditDownAy \/ Cp3EditDownAz
  \/ Cp2EditMiddlePos
  \/ Cp2EditLeftPos \/ Cp2EditLeftC \/ Cp2EditRightPos \/ Cp2EditRightC
  \/ ToggleSyncRadius \/ ToggleSyncAngle

SpecPoint == InitPoint /\ [][NextPoint]_vars

-----------------------------------------------------------------------------
(* Serialization: toJSON builds a tree of plain objects and arrays, fromJSON
   fills a newly constructed object from such a tree *)

\* THREE.Vector2 / Vector3 .toArray() and .fromArray(array).
Vector2_toArray(v) == <<v.x, v.y>>
Vector2_fromArray(array) == Vec2(array[1], array[2])
Vector3_toArray(v) == <<v.x, v.y, v.z>>
Vector3_fromArray(array) == Vec3(array[1], array[2], array[3])

sphericalToJSON(s) == [radius |-> s.radius, phi |-> s.phi, theta |-> s.theta]

\* s.set(json.radius, json.phi, json.theta)
sphericalFromJSON(json) == Spherical(json.radius, json.phi, json.theta)

\* Circular.toJSON / fromJSON: the radius and the angle in degrees.
Circular_toJSON(c) == [radius |-> c.radius, angle |-> c.angle]
Circular_fromJSON(json) == Circular(json.radius, json.angle)

\* new ControlPoint3()
DefaultControlPoint3 ==
  ControlPoint3(Vec3(0, 0, 0), Vec3(0, 1, 0), Vec3(0, -1, 0), TRUE, TRUE)

ControlPoint3_toJSON(cp) ==
  [middlePos |-> Vector3_toArray(cp.middlePos),
   upPos |-> Vector3_toArray(cp.upPos),
   upV |-> Vector3_toArray(cp.upV),
   upS |-> sphericalToJSON(cp.upS),
   upA |-> Vector3_toArray(cp.upA),
   downPos |-> Vector3_toArray(cp.downPos),
   downV |-> Vector3_toArray(cp.downV),
   downS |-> sphericalToJSON(cp.downS),
   downA |-> Vector3_toArray(cp.downA),
   isSyncRadius |-> cp.isSyncRadius,
   isSyncAngle |-> cp.isSyncAngle]

\* fromJSON reading the positions and flags and deriving the other fields as
\* the constructor does.
ControlPoint3_fromJSON_derived(json) ==
  ControlPoint3(Vector3_fromArray(json.middlePos), Vector3_fromArray(json.upPos),
                Vector3_fromArray(json.downPos), json.isSyncRadius, json.isSyncAngle)

\* new ControlPoint3().fromJSON(json)
ControlPoint3_fromJSON(json) ==
  [DefaultControlPoint3 EXCEPT
     !.middlePos = Vector3_fromArray(json.middlePos),
     !.upPos = Vector3_fromArray(json.upPos),
     !.upV = Vector3_fromArray(json.upV),
     !.upS = sphericalFromJSON(json.upS),
     !.upA = Vector3_fromArray(json.upA),
     !.downPos = Vector3_fromArray(json.downPos),
     !.downV = Vector3_fromArray(json.downV),
     !.downS = sphericalFromJSON(json.downS),
     !.downA = Vector3_fromArray(json.downA),
     !.isSyncRadius = json.isSyncRadius,
     !.isSyncAngle = json.isSyncAngle]

ControlPoint2_toJSON(cp) ==
  [middlePos |-> Vector2_toArray(cp.middlePos),
   leftPos |-> Vector2_toArray(cp.leftPos),
   leftV |-> Vector2_toArray(cp.leftV),
   leftC |-> Circular_toJSON(cp.leftC),
   rightPos |-> Vector2_toArray(cp.rightPos),
   rightV |-> Vector2_toArray(cp.rightV),
   rightC |-> Circular_toJSON(cp.rightC),
   isSyncRadius |-> cp.isSyncRadius,
   isSyncAngle |-> cp.isSyncAngle]

\* new ControlPoint2().fromJSON(json)
ControlPoint2_fromJSON(json) ==
  [DefaultControlPoint2 EXCEPT
     !.middlePos = Vector2_fromArray(json.middlePos),
     !.leftPos = Vector2_fromArray(json.leftPos),
     !.leftV = Vector2_fromArray(json.leftV),
     !.leftC = Circular_fromJSON(json.leftC),
     !.rightPos = Vector2_fromArray(json.rightPos),
     !.rightV = Vector2_fromArray(json.rightV),
     !.rightC = Circular_fromJSON(json.rightC),
     !.isSyncRadius = json.isSyncRadius,
     !.isSyncAngle = json.isSyncAngle]

\* THREE.CubicBezierCurve.toJSON / fromJSON.
CubicBezierCurve_toJSON(curve) ==
  [type |-> "CubicBezierCurve",
   v0 |-> Vector2_toArray(curve.v0), v1 |-> Vector2_toArray(curve.v1),
   v2 |-> Vector2_toArray(curve.v2), v3 |-> Vector2_toArray(curve.v3)]

CubicBezierCurve_fromJSON(json) ==
  [v0 |-> Vector2_fromArray(json.v0), v1 |-> Vector2_fromArray(json.v1),
   v2 |-> Vector2_fromArray(json.v2), v3 |-> Vector2_fromArray(json.v3)]

\* new Curve2(cps): a THREE.CurvePath with the control points.
Curve2(s) ==
  [type |-> "Curve2", autoClose |-> FALSE, curves |-> updateCurves(s), cps |-> s]

\* Curve2.toJSON: THREE.CurvePath.toJSON and the control points.
Curve2_toJSON(c) ==
  [type |-> c.type,
   autoClose |-> c.autoClose,
   curves |-> [i \in 1..Len(c.curves) |-> CubicBezierCurve_toJSON(c.curves[i])],
   cps |-> [i \in 1..Len(c.cps) |-> ControlPoint2_toJSON(c.cps[i])]]

\* new Curve2().fromJSON(json): THREE.CurvePath.fromJSON and the control points.
Curve2_fromJSON(json) ==
  [Curve2(<<>>) EXCEPT
     !.autoClose = json.autoClose,
     !.curves = [i \in 1..Len(json.curves) |-> CubicBezierCurve_fromJSON(json.curves[i])],
     !.cps = [i \in 1..Len(json.cps) |-> ControlPoint2_fromJSON(json.cps[i])]]

\* The base class of Curve3 and Curve2 (curve.js): a list of control points
\* of the subclass's cpClass, serialized one by one.
Curve(type, s) == [type |-> type, cps |-> s]

Curve_toJSON(c) ==
  [type |-> c.type,
   cps |-> [i \in 1..Len(c.cps) |->
              IF c.type = "Curve3" THEN ControlPoint3_toJSON(c.cps[i])
                                   ELSE ControlPoint2_toJSON(c.cps[i])]]

\* new Curve3().fromJSON(json) and new Curve2().fromJSON(json)
Curve_fromJSON(type, json) ==
  [Curve(type, <<>>) EXCEPT
     !.cps = [i \in 1..Len(json.cps) |->
                IF type = "Curve3" THEN ControlPoint3_fromJSON(json.cps[i])
                                   ELSE ControlPoint2_fromJSON(json.cps[i])]]

\* The parameters that hold a Curve (v instanceof Curve), with their classes.
CurveParameters ==
  [axis |-> "Curve3", cross |-> "Curve2", scaleC |-> "Curve2", xScaleC |-> "Curve2",
   yScaleC |-> "Curve2", xCurvatureC |-> "Curve2", yCurvatureC |-> "Curve2",
   tiltC |-> "Curve2"]

\* Tube.toJSON on the parameters p.
Tube_toJSON(p) ==
  [k \in DOMAIN p |-> IF k \in DOMAIN CurveParameters THEN Curve_toJSON(p[k]) ELSE p[k]]

\* fromJSON leaving curvatureOrder at the constructor's default.
Tube_fromJSON_defaultOrder(json) ==
  [axis |-> Curve_fromJSON("Curve3", json.axis),
   cross |-> Curve_fromJSON("Curve2", json.cross),
   axisSegments |-> json.axisSegments,
   crossSegments |-> json.crossSegments,
   scaleN |-> json.scaleN,
   xScaleN |-> json.xScaleN,
   yScaleN |-> json.yScaleN,
   xCurvatureN |-> json.xCurvatureN,
   yCurvatureN |-> json.yCurvatureN,
   tiltN |-> json.tiltN,
   scaleC |-> Curve_fromJSON("Curve2", json.scaleC),
   xScaleC |-> Curve_fromJSON("Curve2", json.xScaleC),
   yScaleC |-> Curve_fromJSON("Curve2", json.yScaleC),
   xCurvatureC |-> Curve_fromJSON("Curve2", json.xCurvatureC),
   yCurvatureC |-> Curve_fromJSON("Curve2", json.yCurvatureC),
   tiltC |-> Curve_fromJSON("Curve2", json.tiltC),
   curvatureOrder |-> "xy"]

\* new Tube().fromJSON(json): the parameters of the new tube.
Tube_fromJSON(json) ==
  [axis |-> Curve_fromJSON("Curve3", json.axis),
   cross |-> Curve_fromJSON("Curve2", json.cross),
   axisSegments |-> json.axisSegments,
   crossSegments |-> json.crossSegments,
   scaleN |-> json.scaleN,
   xScaleN |-> json.xScaleN,
   yScaleN |-> json.yScaleN,
   xCurvatureN |-> json.xCurvatureN,
   yCurvatureN |-> json.yCurvatureN,
   tiltN |-> json.tiltN,
   scaleC |-> Curve_fromJSON("Curve2", json.scaleC),
   xScaleC |-> Curve_fromJSON("Curve2", json.xScaleC),
   yScaleC |-> Curve_fromJSON("Curve2", json.yScaleC),
   xCurvatureC |-> Curve_fromJSON("Curve2", json.xCurvatureC),
   yCurvatureC |-> Curve_fromJSON("Curve2", json.yCurvatureC),
   tiltC |-> Curve_fromJSON("Curve2", json.tiltC),
   curvatureOrder |-> json.curvatureOrder]

\* createConstantCurve2(y, xL) of the sample curves.
createConstantCurve2(y, xL) ==
  LET hL == xL \div 3
  IN Curve("Curve2",
           <<ControlPoint2(Vec2(0, y), Vec2(-hL, y), Vec2(hL, y), TRUE, TRUE),
             ControlPoint2(Vec2(xL, y), Vec2(xL - hL, y), Vec2(xL + hL, y), TRUE, TRUE)>>)

constant1Curve2 == createConstantCurve2(1, 3)
constant0Curve2 == createConstantCurve2(0, 3)

\* Control points as the editor leaves them: the default one, one whose
\* handles were shrunk to radius 0, one whose up handle was turned to 360.
Cp3Samples ==
  {DefaultControlPoint3,
   updateFromUpS([DefaultControlPoint3 EXCEPT !.upS.radius = 0]),
   updateFromUpAy([ControlPoint3(Vec3(1, 0, 0), Vec3(1, 0, 1), Vec3(0, 0, 0), FALSE, TRUE)
                     EXCEPT !.upA.y = 360])}

AxisSamples ==
  {Curve("Curve3", <<a, b>>) : a \in Cp3Samples \ {DefaultControlPoint3},
                               b \in {DefaultControlPoint3}}
    \cup {Curve("Curve3", <<DefaultControlPoint3>>)}

CrossSamples ==
  {constant1Curve2, Curve("Curve2", <<ArchL, ArchR(TRUE, FALSE)>>)}

\* Curve2 objects on their own: as constructed, and with a control point
\* added by addCpToLast, which leaves the segments as they were.
Curve2Samples ==
  {Curve2(s) : s \in {<<>>, <<CpA>>, <<CpA, CpC>>, <<ArchL, ArchR(TRUE, FALSE)>>}}
    \cup {[Curve2(<<CpA, CpB>>) EXCEPT !.cps = addCpToLast(<<CpA, CpB>>)]}

Live == data = [none |-> TRUE]

Edited(p) ==
  /\ subject' = p
  /\ UNCHANGED <<target, data, restored, othersThanJSON>>

\* The panel's axisSegments and crossSegments controllers.  The update they
\* trigger regenerates the geometry and writes the same parameters back.
TubeSetSegments ==
  /\ target = "tube" /\ Live
  /\ \/ \E v \in 1..MaxAxisSegments : Edited([subject EXCEPT !.axisSegments = v])
     \/ \E v \in MinCrossSegments..MaxCrossSegments :
          Edited([subject EXCEPT !.crossSegments = v])

\* The controllers of the six scalar parameters.
TubeSetScalar ==
  /\ target = "tube" /\ Live
  /\ \E k \in {"scaleN", "xScaleN", "yScaleN", "xCurvatureN", "yCurvatureN", "tiltN"},
        v \in {0, 1} :
       Edited([subject EXCEPT ![k] = v])

TubeSetCurvatureOrder ==
  /\ target = "tube" /\ Live
  /\ \E v \in {"xy", "yx"} : Edited([subject EXCEPT !.curvatureOrder = v])

ToJSON ==
  /\ Live
  /\ data' = CASE target = "tube" -> Tube_toJSON(subject)
               [] target = "cp3" -> ControlPoint3_toJSON(subject)
               [] target = "curve2" -> Curve2_toJSON(subject)
  /\ UNCHANGED <<target, subject, restored, othersThanJSON>>

FromJSON ==
  /\ ~Live /\ restored = [none |-> TRUE]
  /\ restored' = CASE target = "tube" -> Tube_fromJSON(data)
                   [] target = "cp3" -> ControlPoint3_fromJSON(data)
                   [] target = "curve2" -> Curve2_fromJSON(data)
  /\ UNCHANGED <<target, subject, data, othersThanJSON>>

\* Work goes on with the restored object.
Continue ==
  /\ restored # [none |-> TRUE]
  /\ subject' = restored
  /\ data' = [none |-> TRUE]
  /\ restored' = [none |-> TRUE]
  /\ UNCHANGED <<target, othersThanJSON>>

InitJSON ==
  /\ target \in {"tube", "cp3", "curve2"}
  /\ subject \in
       CASE target = "tube" ->
              {[axis |-> a, cross |-> c,
                axisSegments |-> 1, crossSegments |-> MinCrossSegments,
                scaleN |-> 1, xScaleN |-> 1, yScaleN |-> 1,
                xCurvatureN |-> 0, yCurvatureN |-> 0, tiltN |-> 0,
                scaleC |-> constant1Curve2, xScaleC |-> constant1Curve2,
                yScaleC |-> constant1Curve2, xCurvatureC |-> constant0Curve2,
                yCurvatureC |-> constant0Curve2, tiltC |-> constant0Curve2,
                curvatureOrder |-> "xy"] : a \in AxisSamples, c \in CrossSamples}
         [] target = "cp3" -> Cp3Samples
         [] target = "curve2" -> Curve2Samples
  /\ data = [none |-> TRUE]
  /\ restored = [none |-> TRUE]
  /\ NoCurve
  /\ NoTube
  /\ NoPoint
  /\ NoVertex
  /\ NoSurface
  /\ NoScene
  /\ NoTrig
  /\ NoLate

NextJSON ==
  \/ TubeSetSegments \/ TubeSetScalar \/ TubeSetCurvatureOrder
  \/ ToJSON \/ FromJSON \/ Continue

SpecJSON == InitJSON /\ [][NextJSON]_vars

-----------------------------------------------------------------------------
(* Generation requests: the segment counts reach the generator from the
   panel, from a constructor argument or from deserialized parameters *)

\* The parameters of a tube, all but the segment counts at their defaults.
SampleTube(a, c) ==
  [axis |-> Curve("Curve3", <<DefaultControlPoint3>>), cross |-> constant1Curve2,
   axisSegments |-> a, crossSegments |-> c,
   scaleN |-> 1, xScaleN |-> 1, yScaleN |-> 1,
   xCurvatureN |-> 0, yCurvatureN |-> 0, tiltN |-> 0,
   scaleC |-> constant1Curve2, xScaleC |-> constant1Curve2,
   yScaleC |-> constant1Curve2, xCurvatureC |-> constant0Curve2,
   yCurvatureC |-> constant0Curve2, tiltC |-> constant0Curve2,
   curvatureOrder |-> "xy"]

\* The counts a caller may pass: the constructor and fromJSON take any number.
\* (With axisSegments < 1 the division i / axisSegments decides what the
\* curve sampling of THREE does; those requests are not explored.)
RequestedAxisSegments == 1..MaxAxisSegments
RequestedCrossSegments == 1..MaxCrossSegments

\* generateBufferData() starts on empty buffers with the counts a and c.
Run(a, c, from) ==
  /\ axisSegments' = a /\ crossSegments' = c
  /\ pc' = "segment" /\ loopI' = 0 /\ loopJ' = 0
  /\ nCPsAfter' = 0 /\ nNormals' = 0 /\ nVertices' = 0 /\ nUvs' = 0
  /\ indices' = <<>> /\ reads' = {} /\ buffers' = EmptyBuffers
  /\ origin' = from
  /\ UNCHANGED othersThanTube

\* new TubeBaseGeometry(axis, cross, a, c, ...)
RequestFromConstructor ==
  /\ pc = "done"
  /\ \E a \in RequestedAxisSegments, c \in RequestedCrossSegments :
       Run(a, c, "constructor")

\* new Tube().fromJSON(json) and then createGeometry(group), which passes
\* p.axisSegments and p.crossSegments to the constructor.
RequestFromJSON ==
  /\ pc = "done"
  /\ \E a \in RequestedAxisSegments, c \in RequestedCrossSegments :
       LET json == Tube_toJSON(SampleTube(a, c))
           p == Tube_fromJSON(json)
       IN Run(p.axisSegments, p.crossSegments, "json")

InitRequest ==
  /\ \E a \in RequestedAxisSegments, c \in RequestedCrossSegments : Construct(a, c)
  /\ origin = "constructor"
  /\ NoCurve
  /\ NoPoint
  /\ NoJSON
  /\ NoVertex
  /\ NoSurface
  /\ NoScene
  /\ NoTrig
  /\ NoLate

NextRequest ==
  \/ GenerateSegmentStep \/ CorrectNormalStep \/ GenerateUVsStep
  \/ GenerateIndicesStep \/ Regenerate
  \/ RequestFromConstructor \/ RequestFromJSON

SpecRequest == InitRequest /\ [][NextRequest]_vars

-----------------------------------------------------------------------------
(* TubeBaseGeometry: the numbers of generateSegment.  A number is a pair: a
   finite integer, NaN, Infinity or -Infinity, with the arithmetic of
   JavaScript on them (the sign of a zero is not modelled). *)

Num(n) == <<"finite", n>>
NaN == <<"NaN", 0>>
Infinity == <<"Infinity", 1>>
NegInfinity == <<"Infinity", -1>>

isFinite(x) == x[1] = "finite"
isNaN(x) == x[1] = "NaN"

Sign(n) == IF n > 0 THEN 1 ELSE IF n < 0 THEN -1 ELSE 0
SignedInfinity(s) == IF s < 0 THEN NegInfinity ELSE Infinity

\* x + y
Plus(x, y) ==
  IF isNaN(x) \/ isNaN(y) THEN NaN
  ELSE IF isFinite(x) /\ isFinite(y) THEN Num(x[2] + y[2])
  ELSE IF isFinite(x) THEN y
  ELSE IF isFinite(y) THEN x
  ELSE IF x = y THEN x ELSE NaN

\* -x
Negate(x) == IF isNaN(x) THEN NaN ELSE <<x[1], -x[2]>>

\* x - y
Minus(x, y) == Plus(x, Negate(y))

\* x * y
Times(x, y) ==
  IF isNaN(x) \/ isNaN(y) THEN NaN
  ELSE IF isFinite(x) /\ isFinite(y) THEN Num(x[2] * y[2])
  ELSE IF x[2] = 0 \/ y[2] = 0 THEN NaN
  ELSE SignedInfinity(Sign(x[2]) * Sign(y[2]))

\* x / y; a finite quotient has to be an integer.
Divide(x, y) ==
  IF isNaN(x) \/ isNaN(y) THEN NaN
  ELSE IF isFinite(x) /\ isFinite(y) THEN
    IF y[2] = 0
      THEN IF x[2] = 0 THEN NaN ELSE SignedInfinity(x[2])
      ELSE LET m == IF x[2] < 0 THEN -x[2] ELSE x[2]
           IN Num(CHOOSE q \in -m..m : q * y[2] = x[2])
  ELSE IF isFinite(x) THEN Num(0)
  ELSE IF isFinite(y) THEN SignedInfinity(x[2] * (IF y[2] < 0 THEN -1 ELSE 1))
  ELSE NaN

Math_cos(x) == IF isFinite(x) THEN Num(Cos(x[2])) ELSE NaN
Math_sin(x) == IF isFinite(x) THEN Num(Sin(x[2])) ELSE NaN

Math_sqrt(x) ==
  IF isNaN(x) THEN NaN
  ELSE IF isFinite(x) THEN (IF x[2] < 0 THEN NaN ELSE Num(Sqrt(x[2])))
  ELSE IF x = Infinity THEN Infinity ELSE NaN

\* x || 1
OrOne(x) == IF isNaN(x) \/ x = Num(0) THEN Num(1) ELSE x

isFinite2(v) == isFinite(v.x) /\ isFinite(v.y)
isFinite3(v) == isFinite(v.x) /\ isFinite(v.y) /\ isFinite(v.z)

\* THREE.Vector2.multiplyScalar
multiplyScalar(v, s) == Vec2(Times(v.x, s), Times(v.y, s))

\* THREE.Vector2.rotateAround
rotateAround(v, c, angle) ==
  LET cs == Math_cos(angle)
      sn == Math_sin(angle)
      x == Minus(v.x, c.x)
      y == Minus(v.y, c.y)
  IN Vec2(Plus(Minus(Times(x, cs), Times(y, sn)), c.x),
          Plus(Plus(Times(x, sn), Times(y, cs)), c.y))

\* THREE.Vector3.normalize: divideScalar(length() || 1)
normalize(v) ==
  LET l == OrOne(Math_sqrt(Plus(Plus(Times(v.x, v.x), Times(v.y, v.y)),
                                Times(v.z, v.z))))
  IN Vec3(Divide(v.x, l), Divide(v.y, l), Divide(v.z, l))

center == Vec2(Num(0), Num(0))

-----------------------------------------------------------------------------
(* TubeBaseGeometry: the transform of one cross point and its binormal *)

\* The angle theta a bend of the cross point computes.
thetaOfCP(axis, curvature, CP) ==
  IF axis = "x" THEN Times(CP.y, curvature) ELSE Times(CP.x, curvature)

applyXCurvatureToCP_unguarded(xCurvature, CP) ==
  LET r == Divide(Num(1), xCurvature)
      rMinuxX == Minus(r, CP.x)
      theta == Times(CP.y, xCurvature)
  IN Vec2(Minus(r, Times(rMinuxX, Math_cos(theta))),
          Times(rMinuxX, Math_sin(theta)))

applyXCurvatureToCP(xCurvature, CP) ==
  IF xCurvature = Num(0) THEN CP
  ELSE LET r == Divide(Num(1), xCurvature)
           rMinuxX == Minus(r, CP.x)
           theta == Times(CP.y, xCurvature)
       IN Vec2(Minus(r, Times(rMinuxX, Math_cos(theta))),
               Times(rMinuxX, Math_sin(theta)))

applyYCurvatureToCP(yCurvature, CP) ==
  IF yCurvature = Num(0) THEN CP
  ELSE LET r == Divide(Num(1), yCurvature)
           rMinuxY == Minus(r, CP.y)
           theta == Times(CP.x, yCurvature)
       IN Vec2(Times(rMinuxY, Math_sin(theta)),
               Minus(r, Times(rMinuxY, Math_cos(theta))))

\* The angle by which a bend rotates the binormal.
rotationOfCB(axis, curvature, CPx, CPy) ==
  IF axis = "x" THEN Negate(Times(CPy, curvature)) ELSE Times(CPx, curvature)

applyXCurvatureToCB(xCurvature, CPy, CB) ==
  IF xCurvature = Num(0) THEN CB
  ELSE LET theta == Times(CPy, xCurvature)
       IN rotateAround(CB, center, Negate(theta))

applyYCurvatureToCB(yCurvature, CPx, CB) ==
  IF yCurvature = Num(0) THEN CB
  ELSE LET theta == Times(CPx, yCurvature)
       IN rotateAround(CB, center, theta)

\* The bends in the order the if / else if on curvatureOrder calls them.
bendOrder_xFirst(curvatureOrder) == <<"x", "y">>

bendOrder(curvatureOrder) ==
  IF curvatureOrder = "xy" THEN <<"x", "y">>
  ELSE IF curvatureOrder = "yx" THEN <<"y", "x">>
  ELSE <<>>

\* A cross section of four straight sides sampled at its corners
\* (crossSegments = 4): CPs[j] and CBs[j], the binormal of the cross curve's
\* Frenet frame, which lies in the plane across the side that starts at j.
SquareCross ==
  <<[CP |-> Vec2(Num(1), Num(1)), CB |-> Vec2(Num(0), Num(-1))],
    [CP |-> Vec2(Num(-1), Num(1)), CB |-> Vec2(Num(1), Num(0))],
    [CP |-> Vec2(Num(-1), Num(-1)), CB |-> Vec2(Num(0), Num(1))],
    [CP |-> Vec2(Num(1), Num(-1)), CB |-> Vec2(Num(-1), Num(0))],
    [CP |-> Vec2(Num(1), Num(1)), CB |-> Vec2(Num(-1), Num(0))]>>

\* The values the generator is given: multipliers the panel lets through
\* (min(0)), curvatures including the non-finite ones a constructor argument
\* can be, tilts in degrees.
ScaleValues == {Num(0), Num(1)}
CurvatureValues == {Num(-1), Num(0), Num(1), NaN, Infinity}
TiltValues == {0, 90}
CurvatureOrders == {"xy", "yx"}

\* The values of a ring: each number times or plus the value of its
\* modulation curve there (scaleC.getPointAt(u).y and so on).
Resolve(n, c) ==
  [scale |-> Times(n.scaleN, c.scaleC),
   xScale |-> Times(n.xScaleN, c.xScaleC),
   yScale |-> Times(n.yScaleN, c.yScaleC),
   xCurvature |-> Plus(n.xCurvatureN, c.xCurvatureC),
   yCurvature |-> Plus(n.yCurvatureN, c.yCurvatureC),
   tilt |-> Num(degToRad(n.tiltN + c.tiltC)),
   curvatureOrder |-> n.curvatureOrder]

\* The modulation curves at their defaults: constant 1 and constant 0.
DefaultModulation ==
  [scaleC |-> Num(1), xScaleC |-> Num(1), yScaleC |-> Num(1),
   xCurvatureC |-> Num(0), yCurvatureC |-> Num(0), tiltC |-> 0]

CurvatureOf(p, axis) == IF axis = "x" THEN p.xCurvature ELSE p.yCurvature

\* CP = CPs[j].clone(); CP.multiplyScalar(scale); CP.x *= xScale;
\* CP.y *= yScale; CPx and CPy keep the result.
ScaleCP ==
  /\ vtx.at = "scaleCP"
  /\ LET CP == multiplyScalar(vtx.CP, vtx.p.scale)
         scaled == Vec2(Times(CP.x, vtx.p.xScale), Times(CP.y, vtx.p.yScale))
     IN vtx' = [vtx EXCEPT !.CP = scaled, !.CPx = scaled.x, !.CPy = scaled.y,
                           !.scaledCP = scaled, !.at = "bendCP", !.k = 1]
  /\ UNCHANGED othersThanVertex

\* The next call of applyXCurvatureToCP or applyYCurvatureToCP.
BendCP ==
  /\ vtx.at = "bendCP"
  /\ vtx.k <= Len(bendOrder(vtx.p.curvatureOrder))
  /\ LET axis == bendOrder(vtx.p.curvatureOrder)[vtx.k]
         curvature == CurvatureOf(vtx.p, axis)
         bent == IF axis = "x" THEN applyXCurvatureToCP(curvature, vtx.CP)
                 ELSE applyYCurvatureToCP(curvature, vtx.CP)
         call == [of |-> "CP", axis |-> axis, early |-> curvature = Num(0),
                  angle |-> thetaOfCP(axis, curvature, vtx.CP)]
     IN vtx' = [vtx EXCEPT !.CP = bent, !.k = @ + 1, !.log = Append(@, call)]
  /\ UNCHANGED othersThanVertex

\* CP.rotateAround(center, tilt); CPsAfter.push(CP.clone())
TiltCP ==
  /\ vtx.at = "bendCP"
  /\ vtx.k > Len(bendOrder(vtx.p.curvatureOrder))
  /\ vtx' = [vtx EXCEPT !.bentCP = vtx.CP,
                        !.CP = rotateAround(vtx.CP, center, vtx.p.tilt),
                        !.at = "scaleCB"]
  /\ UNCHANGED othersThanVertex

\* CB = CBs[j].clone(); CB.x *= yScale; CB.y *= xScale
ScaleCB ==
  /\ vtx.at = "scaleCB"
  /\ LET scaled == Vec2(Times(vtx.CB.x, vtx.p.yScale),
                        Times(vtx.CB.y, vtx.p.xScale))
     IN vtx' = [vtx EXCEPT !.CB = scaled, !.scaledCB = scaled,
                           !.at = "bendCB", !.k = 1]
  /\ UNCHANGED othersThanVertex

\* The next call of applyXCurvatureToCB or applyYCurvatureToCB.
BendCB ==
  /\ vtx.at = "bendCB"
  /\ vtx.k <= Len(bendOrder(vtx.p.curvatureOrder))
  /\ LET axis == bendOrder(vtx.p.curvatureOrder)[vtx.k]
         curvature == CurvatureOf(vtx.p, axis)
         bent == IF axis = "x"
                   THEN applyXCurvatureToCB(curvature, vtx.CPy, vtx.CB)
                   ELSE applyYCurvatureToCB(curvature, vtx.CPx, vtx.CB)
         call == [of |-> "CB", axis |-> axis, early |-> curvature = Num(0),
                  angle |-> rotationOfCB(axis, curvature, vtx.CPx, vtx.CPy)]
     IN vtx' = [vtx EXCEPT !.CB = bent, !.k = @ + 1, !.log = Append(@, call)]
  /\ UNCHANGED othersThanVertex

\* CB.rotateAround(center, tilt)
TiltCB ==
  /\ vtx.at = "bendCB"
  /\ vtx.k > Len(bendOrder(vtx.p.curvatureOrder))
  /\ vtx' = [vtx EXCEPT !.bentCB = vtx.CB,
                        !.CB = rotateAround(vtx.CB, center, vtx.p.tilt),
                        !.at = "emit"]
  /\ UNCHANGED othersThanVertex

\* The normal and the vertex pushed, on the frame AN, AB at the point AP of
\* the axis.
normalOf(CB, AN, AB) ==
  normalize(Vec3(Plus(Times(CB.x, AN.x), Times(Negate(CB.y), AB.x)),
                 Plus(Times(CB.x, AN.y), Times(Negate(CB.y), AB.y)),
                 Plus(Times(CB.x, AN.z), Times(Negate(CB.y), AB.z))))

vertexOf(CP, AP, AN, AB) ==
  Vec3(Plus(Plus(AP.x, Times(Negate(CP.x), AN.x)), Times(CP.y, AB.x)),
       Plus(Plus(AP.y, Times(Negate(CP.x), AN.y)), Times(CP.y, AB.y)),
       Plus(Plus(AP.z, Times(Negate(CP.x), AN.z)), Times(CP.y, AB.z)))

\* The frame of a straight axis along z.
StraightAN == Vec3(Num(1), Num(0), Num(0))
StraightAB == Vec3(Num(0), Num(1), Num(0))
StraightAT == Vec3(Num(0), Num(0), Num(1))
StraightAP(z) == Vec3(Num(0), Num(0), Num(z))

Emit ==
  /\ vtx.at = "emit"
  /\ vtx' = [vtx EXCEPT
       !.normal = normalOf(vtx.CB, StraightAN, StraightAB),
       !.vertex = vertexOf(vtx.CP, StraightAP(0), StraightAN, StraightAB),
       !.at = "done"]
  /\ UNCHANGED othersThanVertex

InitVertex ==
  /\ \E j \in 1..Len(SquareCross), s \in ScaleValues, xs \in ScaleValues,
        ys \in ScaleValues, xc \in CurvatureValues, yc \in CurvatureValues,
        t \in TiltValues, o \in CurvatureOrders :
       vtx = [j |-> j - 1,
              p |-> Resolve([scaleN |-> s, xScaleN |-> xs, yScaleN |-> ys,
                             xCurvatureN |-> xc, yCurvatureN |-> yc,
                             tiltN |-> t, curvatureOrder |-> o],
                            DefaultModulation),
              at |-> "scaleCP", k |-> 1,
              CP |-> SquareCross[j].CP, CB |-> SquareCross[j].CB,
              CPx |-> NaN, CPy |-> NaN,
              scaledCP |-> SquareCross[j].CP, scaledCB |-> SquareCross[j].CB,
              bentCP |-> SquareCross[j].CP, bentCB |-> SquareCross[j].CB,
              log |-> <<>>,
              normal |-> Vec3(NaN, NaN, NaN), vertex |-> Vec3(NaN, NaN, NaN)]
  /\ NoCurve
  /\ NoTube
  /\ NoPoint
  /\ NoJSON
  /\ NoSurface
  /\ NoScene
  /\ NoTrig
  /\ NoLate

NextVertex ==
  \/ ScaleCP \/ BendCP \/ TiltCP \/ ScaleCB \/ BendCB \/ TiltCB \/ Emit

SpecVertex == InitVertex /\ [][NextVertex]_vars

-----------------------------------------------------------------------------
(* TubeBaseGeometry: generateSegment with the values it computes, for a tube
   of constant cross section around a straight axis *)

\* The whole transform of CPs[j] and CBs[j] at a ring with the values p.
bendCP(axis, p, CP) ==
  IF axis = "x" THEN applyXCurvatureToCP(p.xCurvature, CP)
  ELSE applyYCurvatureToCP(p.yCurvature, CP)

bendCB(axis, p, CPx, CPy, CB) ==
  IF axis = "x" THEN applyXCurvatureToCB(p.xCurvature, CPy, CB)
  ELSE applyYCurvatureToCB(p.yCurvature, CPx, CB)

scaleOfCP(p, CP) ==
  LET s == multiplyScalar(CP, p.scale)
  IN Vec2(Times(s.x, p.xScale), Times(s.y, p.yScale))

transformCP(p, CP) ==
  LET order == bendOrder(p.curvatureOrder)
      s == scaleOfCP(p, CP)
      b1 == IF Len(order) >= 1 THEN bendCP(order[1], p, s) ELSE s
      b2 == IF Len(order) >= 2 THEN bendCP(order[2], p, b1) ELSE b1
  IN rotateAround(b2, center, p.tilt)

transformCB(p, CP, CB) ==
  LET order == bendOrder(p.curvatureOrder)
      scaled == scaleOfCP(p, CP)
      s == Vec2(Times(CB.x, p.yScale), Times(CB.y, p.xScale))
      b1 == IF Len(order) >= 1
              THEN bendCB(order[1], p, scaled.x, scaled.y, s) ELSE s
      b2 == IF Len(order) >= 2
              THEN bendCB(order[2], p, scaled.x, scaled.y, b1) ELSE b1
  IN rotateAround(b2, center, p.tilt)

\* THREE.Vector3: sub and cross
Sub3N(a, b) == Vec3(Minus(a.x, b.x), Minus(a.y, b.y), Minus(a.z, b.z))

Cross3N(a, b) ==
  Vec3(Minus(Times(a.y, b.z), Times(a.z, b.y)),
       Minus(Times(a.z, b.x), Times(a.x, b.z)),
       Minus(Times(a.x, b.y), Times(a.y, b.x)))

\* new THREE.Vector3(CPsAfter[n].x, CPsAfter[n].y, z)
CPsAfter3(CPsAfter, n, z) == Vec3(CPsAfter[n + 1].x, CPsAfter[n + 1].y, z)

\* The cross product taken in the same order in every case.
crossOfNeighbours_oneOrder(CPsAfter, cs, i, j, ring, axisLengthSegment) ==
  LET n22 == (cs + 1) * i + j
      nSide == IF j = 0 THEN (cs + 1) * i + (j + 1) ELSE (cs + 1) * i + (j - 1)
      nRing == (cs + 1) * (i + ring) + j
      P22 == CPsAfter3(CPsAfter, n22, Num(0))
      vSide == Sub3N(CPsAfter3(CPsAfter, nSide, Num(0)), P22)
      vRing == Sub3N(CPsAfter3(CPsAfter, nRing,
                       IF ring = 1 THEN axisLengthSegment
                       ELSE Negate(axisLengthSegment)), P22)
  IN Cross3N(vSide, vRing)

\* The cross product c of vertex (i, j) with its neighbour in the ring and
\* its neighbour in the ring before (ring = -1) or after (ring = 1).
crossOfNeighbours(CPsAfter, cs, i, j, ring, axisLengthSegment) ==
  LET n22 == (cs + 1) * i + j
      nSide == IF j = 0 THEN (cs + 1) * i + (j + 1) ELSE (cs + 1) * i + (j - 1)
      nRing == (cs + 1) * (i + ring) + j
      P22 == CPsAfter3(CPsAfter, n22, Num(0))
      vSide == Sub3N(CPsAfter3(CPsAfter, nSide, Num(0)), P22)
      vRing == Sub3N(CPsAfter3(CPsAfter, nRing,
                       IF ring = 1 THEN axisLengthSegment
                       ELSE Negate(axisLengthSegment)), P22)
  IN IF (ring = 1) = (j = 0) THEN Cross3N(vSide, vRing)
     ELSE Cross3N(vRing, vSide)

xyOf(c) == Math_sqrt(Plus(Times(c.x, c.x), Times(c.y, c.y)))

\* The slope z / xy of vertex (i, j).
slopeOf(CPsAfter, as, cs, i, j, axisLengthSegment) ==
  LET c1 == crossOfNeighbours(CPsAfter, cs, i, j, -1, axisLengthSegment)
      c2 == crossOfNeighbours(CPsAfter, cs, i, j, 1, axisLengthSegment)
      xy == IF i = 0 THEN xyOf(c2)
            ELSE IF i = as THEN xyOf(c1)
            ELSE Divide(Plus(xyOf(c1), xyOf(c2)), Num(2))
      z == IF i = 0 THEN c2.z
           ELSE IF i = as THEN c1.z
           ELSE Divide(Plus(c1.z, c2.z), Num(2))
  IN Divide(z, xy)

\* normal = normals[n0] + (z / xy) * AT, normalized
correctedNormal(n, slope, AT) ==
  normalize(Vec3(Plus(n.x, Times(slope, AT.x)),
                 Plus(n.y, Times(slope, AT.y)),
                 Plus(n.z, Times(slope, AT.z))))

\* The end of one iteration of the loops over i and j of a pass.
SurfaceIterate(after) ==
  IF geo.j < geo.crossSegments
    THEN [i |-> geo.i, j |-> geo.j + 1, pass |-> geo.pass]
  ELSE IF geo.i < geo.axisSegments
    THEN [i |-> geo.i + 1, j |-> 0, pass |-> geo.pass]
  ELSE [i |-> 0, j |-> 0, pass |-> after]

\* generateSegment, first loop, one vertex.
SurfaceVertexStep ==
  /\ geo.pass = "first"
  /\ LET CP == transformCP(geo.p, SquareCross[geo.j + 1].CP)
         CB == transformCB(geo.p, SquareCross[geo.j + 1].CP,
                           SquareCross[geo.j + 1].CB)
         to == SurfaceIterate("second")
     IN geo' = [geo EXCEPT
          !.CPsAfter = Append(@, CP),
          !.normals = Append(@, normalOf(CB, StraightAN, StraightAB)),
          !.vertices = Append(@, vertexOf(CP, StraightAP(geo.i), StraightAN,
                                          StraightAB)),
          !.i = to.i, !.j = to.j, !.pass = to.pass]
  /\ UNCHANGED othersThanSurface

\* generateSegment, second loop, one vertex: the normal rewritten in place.
\* The axis has length axisSegments, so axisLengthSegment is 1.
SurfaceNormalStep ==
  /\ geo.pass = "second"
  /\ LET n0 == (geo.crossSegments + 1) * geo.i + geo.j
         axisLengthSegment == Divide(Num(geo.axisSegments), Num(geo.axisSegments))
         slope == slopeOf(geo.CPsAfter, geo.axisSegments, geo.crossSegments,
                          geo.i, geo.j, axisLengthSegment)
         to == SurfaceIterate("done")
     IN geo' = [geo EXCEPT
          !.normals[n0 + 1] = correctedNormal(@, slope, StraightAT),
          !.i = to.i, !.j = to.j, !.pass = to.pass]
  /\ UNCHANGED othersThanSurface

InitSurface ==
  /\ \E a \in 1..MaxAxisSegments, s \in ScaleValues, xs \in ScaleValues,
        ys \in ScaleValues, t \in TiltValues, o \in CurvatureOrders :
       geo = [axisSegments |-> a, crossSegments |-> Len(SquareCross) - 1,
              p |-> Resolve([scaleN |-> s, xScaleN |-> xs, yScaleN |-> ys,
                             xCurvatureN |-> Num(0), yCurvatureN |-> Num(0),
                             tiltN |-> t, curvatureOrder |-> o],
                            DefaultModulation),
              pass |-> "first", i |-> 0, j |-> 0,
              CPsAfter |-> <<>>, normals |-> <<>>, vertices |-> <<>>]
  /\ NoCurve
  /\ NoTube
  /\ NoPoint
  /\ NoJSON
  /\ NoVertex
  /\ NoScene
  /\ NoTrig
  /\ NoLate

NextSurface == SurfaceVertexStep \/ SurfaceNormalStep

SpecSurface == InitSurface /\ [][NextSurface]_vars

-----------------------------------------------------------------------------
(* math/utils: safeAsin and safeAcos, on the numbers of JavaScript *)

\* x < y, for x and y other than NaN
Less(x, y) ==
  IF ~isFinite(x) THEN x = NegInfinity /\ y # NegInfinity
  ELSE IF ~isFinite(y) THEN y = Infinity
  ELSE x[2] < y[2]

Math_min(x, y) == IF isNaN(x) \/ isNaN(y) THEN NaN ELSE IF Less(y, x) THEN y ELSE x
Math_max(x, y) == IF isNaN(x) \/ isNaN(y) THEN NaN ELSE IF Less(x, y) THEN y ELSE x

\* THREE.MathUtils.clamp
clamp(value, min, max) == Math_max(min, Math_min(max, value))

\* Math.asin and Math.acos, in quarter turns: NaN outside [-1, 1].
Math_asin(x) ==
  IF x = Num(1) THEN Num(1) ELSE IF x = Num(0) THEN Num(0)
  ELSE IF x = Num(-1) THEN Num(-1) ELSE NaN

Math_acos(x) ==
  IF x = Num(1) THEN Num(0) ELSE IF x = Num(0) THEN Num(1)
  ELSE IF x = Num(-1) THEN Num(Pi) ELSE NaN

utils_safeAsin(opposite, hypotenuse) ==
  IF hypotenuse = Num(0) THEN Num(0)
  ELSE Math_asin(clamp(Divide(opposite, hypotenuse), Num(-1), Num(1)))

\* safeAcos without the clamp.
utils_safeAcos_unclamped(adjacent, hypotenuse) ==
  IF hypotenuse = Num(0) THEN Num(0)
  ELSE Math_acos(Divide(adjacent, hypotenuse))

utils_safeAcos(adjacent, hypotenuse) ==
  IF hypotenuse = Num(0) THEN Num(0)
  ELSE Math_acos(clamp(Divide(adjacent, hypotenuse), Num(-1), Num(1)))

\* Arguments: a hypotenuse h and a side that is a multiple of it, up to twice
\* as long (the ratio drifted beyond 1), and any side over hypotenuse 0.
TrigArguments ==
  {<<k * h, h>> : k \in -2..2, h \in 1..(MaxCoord + 1)}
    \cup {<<s, 0>> : s \in -1..1}

SafeAsin ==
  /\ \E a \in TrigArguments :
       trig' = [fn |-> "safeAsin", side |-> a[1], hypotenuse |-> a[2],
                result |-> utils_safeAsin(Num(a[1]), Num(a[2]))]
  /\ UNCHANGED <<curveVars, tubeVars, pointVars, jsonVars, vtx, geo, scene,
               lateVars>>

SafeAcos ==
  /\ \E a \in TrigArguments :
       trig' = [fn |-> "safeAcos", side |-> a[1], hypotenuse |-> a[2],
                result |-> utils_safeAcos(Num(a[1]), Num(a[2]))]
  /\ UNCHANGED <<curveVars, tubeVars, pointVars, jsonVars, vtx, geo, scene,
               lateVars>>

\* A ControlPoint3 whose handle angles and radii are edited, and the two
\* functions called with arguments of their own.
InitAngles ==
  /\ kind = "cp3"
  /\ \E sr \in BOOLEAN, sa \in BOOLEAN :
       point = ControlPoint3(Vec3(0, 0, 0), Vec3(0, 1, 0), Vec3(0, -1, 0), sr, sa)
  /\ lastOp = "new"
  /\ NoTrig
  /\ NoLate
  /\ NoCurve
  /\ NoTube
  /\ NoJSON
  /\ NoVertex
  /\ NoSurface
  /\ NoScene

NextAngles ==
  \/ SafeAsin \/ SafeAcos
  \/ Cp3EditUpRadius \/ Cp3EditUpAx \/ Cp3EditUpAz
  \/ Cp3EditDownRadius \/ Cp3EditDownAx \/ Cp3EditDownAz

SpecAngles == InitAngles /\ [][NextAngles]_vars

-----------------------------------------------------------------------------
(* Tube: the panel and the geometries shown in the group *)

\* A TubeGeometry: its identity, its parameters, and the values of the
\* parameters its buffers were generated from.
Geometry(id, p) == [id |-> id, parameters |-> p, buffersOf |-> p, disposed |-> FALSE]

\* What the group's children hold before createGeometry.
Placeholder == [id |-> 0, parameters |-> [none |-> TRUE],
                buffersOf |-> [none |-> TRUE], disposed |-> FALSE]

\* An identity no geometry in sc has.
NewId(sc) == CHOOSE id \in 0..2 : id # sc.mesh.id /\ id # sc.previous.id

\* _updateGeometry rewriting the buffers of the geometry on display.
updateGeometry_inPlace(p, sc) ==
  [sc EXCEPT !.mesh.parameters = p, !.mesh.buffersOf = p]

\* _updateGeometry: a new TubeGeometry from p, the old geometries disposed,
\* the wireframe made of the new one.  (Object.assign(p, geometry.parameters)
\* writes the values of p back to p.)
updateGeometry(p, sc) ==
  LET geometry == Geometry(NewId(sc), p)
  IN [sc EXCEPT !.previous = [sc.mesh EXCEPT !.disposed = TRUE],
                !.wireframe = [of |-> geometry.id, buffersOf |-> geometry.buffersOf],
                !.mesh = geometry]

\* function update() of setGUI, after a controller has written p.
PanelEvent(p) ==
  /\ scene.events < MaxEvents
  /\ subject' = p
  /\ scene' = [updateGeometry(p, scene) EXCEPT !.events = @ + 1]
  /\ UNCHANGED <<target, data, restored, curveVars, tubeVars, pointVars,
                 vtx, geo, trig, lateVars>>

TubeChangeSegments ==
  /\ target = "panel"
  /\ \E k \in {"axisSegments", "crossSegments"},
        v \in 1..Max(MaxAxisSegments, MaxCrossSegments) :
       /\ k = "axisSegments" => v <= MaxAxisSegments
       /\ k = "crossSegments" => v >= MinCrossSegments
       /\ PanelEvent([subject EXCEPT ![k] = v])

TubeChangeScalar ==
  /\ target = "panel"
  /\ \E k \in {"scaleN", "xScaleN", "yScaleN", "xCurvatureN", "yCurvatureN",
               "tiltN"},
        v \in {0, 1} :
       PanelEvent([subject EXCEPT ![k] = v])

TubeChangeCurvatureOrder ==
  /\ target = "panel"
  /\ \E v \in {"xy", "yx"} : PanelEvent([subject EXCEPT !.curvatureOrder = v])

\* An edit in the folder of one of the eight curves; the curve's panel calls
\* update() after it.
TubeEditCurve ==
  /\ target = "panel"
  /\ \E k \in {"axis", "cross", "scaleC", "xScaleC", "yScaleC", "xCurvatureC",
               "yCurvatureC", "tiltC"},
        c \in AxisSamples \cup {constant0Curve2, constant1Curve2} :
       /\ k = "axis" <=> c \in AxisSamples
       /\ PanelEvent([subject EXCEPT ![k] = c])

\* new Tube(parameters), createGeometry(group), setGUI(gui)
InitPanel ==
  /\ target = "panel"
  /\ subject = SampleTube(1, MinCrossSegments)
  /\ data = [none |-> TRUE] /\ restored = [none |-> TRUE]
  /\ scene = [updateGeometry(subject,
                [mesh |-> Placeholder, previous |-> Placeholder,
                 wireframe |-> [of |-> 0, buffersOf |-> [none |-> TRUE]],
                 events |-> 0])
              EXCEPT !.events = 0]
  /\ NoCurve
  /\ NoTube
  /\ NoPoint
  /\ NoVertex
  /\ NoSurface
  /\ NoTrig
  /\ NoLate

NextPanel ==
  \/ TubeChangeSegments \/ TubeChangeScalar \/ TubeChangeCurvatureOrder
  \/ TubeEditCurve

SpecPanel == InitPanel /\ [][NextPanel]_vars

-----------------------------------------------------------------------------
(* Modulation parameters of TubeGeometry: a number or a curve *)

\* typeof of a modulation parameter: "number", or "object" for a curve.
typeof(param) == param.type

Number(n) == [type |-> "number", value |-> n]

RECURSIVE Factorial(_)
Factorial(n) == IF n <= 1 THEN 1 ELSE n * Factorial(n - 1)

\* Every u = i / axisSegments explored is a multiple of 1 / UnitsOfU.  A
\* curve holds its point at each of them.
UnitsOfU == Factorial(MaxAxisSegments)

CurveOf(points) == [type |-> "object", points |-> points]

\* curve.getPointAt(u)
getPointAt(curve, u) == curve.points[(u[1] * UnitsOfU) \div u[2]]

\* if (typeof scale !== "number") SP = scale.getPointAt(i / axisSegments, SP)
sample(param, u, P) ==
  IF typeof(param) # "number" THEN getPointAt(param, u) ELSE P

\* The getPointAt calls of that line.
samplesOf(name, param, u) ==
  IF typeof(param) # "number" THEN <<[of |-> name, u |-> u]>> ELSE <<>>

\* typeof scale !== "number" ? SP.x : scale
resolve_x(param, P) ==
  IF typeof(param) # "number" THEN P.x ELSE param.value

\* typeof scale !== "number" ? SP.y : scale
resolve(param, P) ==
  IF typeof(param) # "number" THEN P.y ELSE param.value

\* Two curves whose points differ from each other, and in x and y.
RisingCurve == CurveOf([t \in 0..UnitsOfU |-> Vec2(t, 3 + t)])
FallingCurve == CurveOf([t \in 0..UnitsOfU |-> Vec2(1 + t, 0 - t)])

ModulationValues ==
  {Number(0), Number(1), Number(5), RisingCurve, FallingCurve}

\* Ring i of generateSegment: the three parameters are sampled where they
\* are curves, and the cross point (1, 1) is scaled by what they resolve to.
GenerateRing ==
  /\ mod # [none |-> TRUE]
  /\ mod.i <= mod.axisSegments
  /\ LET u == Ratio(mod.i, mod.axisSegments)
         SP == sample(mod.scale, u, mod.SP)
         XSP == sample(mod.xScale, u, mod.XSP)
         YSP == sample(mod.yScale, u, mod.YSP)
         s == resolve(mod.scale, SP)
         xs == resolve(mod.xScale, XSP)
         ys == resolve(mod.yScale, YSP)
     IN mod' = [mod EXCEPT
                  !.SP = SP, !.XSP = XSP, !.YSP = YSP,
                  !.calls = @ \o samplesOf("scale", mod.scale, u)
                              \o samplesOf("xScale", mod.xScale, u)
                              \o samplesOf("yScale", mod.yScale, u),
                  !.rings = Append(@, [i |-> mod.i, scale |-> s,
                                       xScale |-> xs, yScale |-> ys,
                                       CP |-> Vec2(1 * s * xs, 1 * s * ys)]),
                  !.i = @ + 1]
  /\ UNCHANGED othersThanModulation

\* new TubeGeometry(axis, cross, axisSegments, crossSegments, scale, xScale,
\* yScale), before the first ring.
InitModulation ==
  /\ \E a \in 1..MaxAxisSegments, s \in ModulationValues,
        xs \in ModulationValues, ys \in ModulationValues :
       mod = [axisSegments |-> a, scale |-> s, xScale |-> xs, yScale |-> ys,
              SP |-> Vec2(0, 0), XSP |-> Vec2(0, 0), YSP |-> Vec2(0, 0),
              calls |-> <<>>, rings |-> <<>>, i |-> 0]
  /\ NoCurve
  /\ NoTube
  /\ NoPoint
  /\ NoJSON
  /\ NoVertex
  /\ NoSurface
  /\ NoScene
  /\ NoTrig
  /\ NoHistory
  /\ NoGui
  /\ NoMemory

NextModulation == GenerateRing

SpecModulation == InitModulation /\ [][NextModulation]_vars

-----------------------------------------------------------------------------
(* Editing history: undo and redo over snapshots of the parameter tree *)

\* The parameter trees one edit away from p: a scalar, a segment count or
\* curvatureOrder typed into the panel, the axis or the cross section edited
\* into another of the sample curves.
EditsOf(p) ==
  ({[p EXCEPT ![k] = v] :
      k \in {"scaleN", "xScaleN", "yScaleN", "xCurvatureN", "yCurvatureN", "tiltN"},
      v \in {0, 1}}
   \cup {[p EXCEPT !.axisSegments = v] : v \in 1..MaxAxisSegments}
   \cup {[p EXCEPT !.curvatureOrder = v] : v \in {"xy", "yx"}}
   \cup {[p EXCEPT !.axis = a] : a \in AxisSamples}
   \cup {[p EXCEPT !.cross = c] : c \in CrossSamples}) \ {p}

\* A parameter edit: the snapshot of the tree as it was goes onto the undo
\* stack, the redo stack is emptied.  (wasBefore and wasAfter keep the trees
\* themselves, for the properties.)
ParameterEdit ==
  /\ undo # [none |-> TRUE]
  /\ Len(undo.undoStack) < MaxEvents
  /\ \E p \in EditsOf(undo.tube) :
       undo' = [undo EXCEPT
                  !.tube = p,
                  !.undoStack = Append(@, Tube_toJSON(undo.tube)),
                  !.redoStack = <<>>,
                  !.wasBefore = Append(@, undo.tube),
                  !.wasAfter = <<>>,
                  !.lastOp = "edit",
                  !.expected = p]
  /\ UNCHANGED othersThanHistory

\* Undo: the tube is rebuilt from the snapshot on top of the undo stack; a
\* snapshot of what it was goes onto the redo stack.
Undo ==
  /\ undo # [none |-> TRUE]
  /\ undo.undoStack # <<>>
  /\ LET n == Len(undo.undoStack)
     IN undo' = [undo EXCEPT
                   !.tube = Tube_fromJSON(undo.undoStack[n]),
                   !.undoStack = SubSeq(@, 1, n - 1),
                   !.redoStack = Append(@, Tube_toJSON(undo.tube)),
                   !.wasBefore = SubSeq(@, 1, n - 1),
                   !.wasAfter = Append(@, undo.tube),
                   !.lastOp = "undo",
                   !.expected = undo.wasBefore[n]]
  /\ UNCHANGED othersThanHistory

\* Redo: the same from the redo stack.
Redo ==
  /\ undo # [none |-> TRUE]
  /\ undo.redoStack # <<>>
  /\ LET n == Len(undo.redoStack)
     IN undo' = [undo EXCEPT
                   !.tube = Tube_fromJSON(undo.redoStack[n]),
                   !.redoStack = SubSeq(@, 1, n - 1),
                   !.undoStack = Append(@, Tube_toJSON(undo.tube)),
                   !.wasAfter = SubSeq(@, 1, n - 1),
                   !.wasBefore = Append(@, undo.tube),
                   !.lastOp = "redo",
                   !.expected = undo.wasAfter[n]]
  /\ UNCHANGED othersThanHistory

InitHistory ==
  /\ \E a \in AxisSamples, c \in CrossSamples :
       undo = [tube |-> [SampleTube(1, MinCrossSegments) EXCEPT !.axis = a, !.cross = c],
               undoStack |-> <<>>, redoStack |-> <<>>,
               wasBefore |-> <<>>, wasAfter |-> <<>>,
               lastOp |-> "none", expected |-> [none |-> TRUE]]
  /\ NoCurve
  /\ NoTube
  /\ NoPoint
  /\ NoJSON
  /\ NoVertex
  /\ NoSurface
  /\ NoScene
  /\ NoTrig
  /\ NoModulation
  /\ NoGui
  /\ NoMemory

NextHistory == ParameterEdit \/ Undo \/ Redo

SpecHistory == InitHistory /\ [][NextHistory]_vars

-----------------------------------------------------------------------------
(* Objects in memory: clone() and copy() of control points, curves and tubes.
   The heap is the sequence of the objects allocated so far, a reference is
   an index into it. *)

\* A Vector2, Vector3, Circular or Spherical held in a field of a control
\* point.
ValueObject(v) == [class |-> "value", value |-> v]

Cp2Fields ==
  <<"middlePos", "leftPos", "leftV", "leftC", "rightPos", "rightV", "rightC">>
Cp3Fields ==
  <<"middlePos", "upPos", "upV", "upS", "upA", "downPos", "downV", "downS", "downA">>
FieldsOf(class) == IF class = "ControlPoint2" THEN Cp2Fields ELSE Cp3Fields
DefaultOf(class) ==
  IF class = "ControlPoint2" THEN DefaultControlPoint2 ELSE DefaultControlPoint3
\* The control points of a Curve3 are ControlPoint3, of a Curve2 ControlPoint2.
CpClassOf(class) == IF class = "Curve3" THEN "ControlPoint3" ELSE "ControlPoint2"
PositionIn(seq, x) == CHOOSE i \in 1..Len(seq) : seq[i] = x

\* An entry of a parameters object: a reference or a number or string.
Ref(id) == [isRef |-> TRUE, v |-> id]
Prim(v) == [isRef |-> FALSE, v |-> v]

\* The keys of a tube's parameters, in the order of Object.entries.
ParameterKeys ==
  <<"axis", "cross", "axisSegments", "crossSegments", "scaleN", "xScaleN",
    "yScaleN", "xCurvatureN", "yCurvatureN", "tiltN", "scaleC", "xScaleC",
    "yScaleC", "xCurvatureC", "yCurvatureC", "tiltC", "curvatureOrder">>

\* new ControlPoint2(...) or new ControlPoint3(...) with the values of v: the
\* control point and a value object of its own for each of its fields.
New_ControlPoint(h, class, v) ==
  LET fs == FieldsOf(class)
      n == Len(h)
  IN [heap |-> h \o [i \in 1..Len(fs) |-> ValueObject(v[fs[i]])]
                 \o <<[class |-> class,
                       fields |-> [f \in {fs[i] : i \in 1..Len(fs)} |->
                                     n + PositionIn(fs, f)],
                       isSyncRadius |-> v.isSyncRadius,
                       isSyncAngle |-> v.isSyncAngle]>>,
      id |-> n + Len(fs) + 1]

\* this.middlePos.copy(source.middlePos) and so on, field by field: the
\* value of the source's object is written into the object this refers to.
RECURSIVE CopyFields(_, _, _, _)
CopyFields(h, this, source, fs) ==
  IF fs = <<>> THEN h
  ELSE CopyFields([h EXCEPT ![h[this].fields[Head(fs)]].value =
                              h[h[source].fields[Head(fs)]].value],
                  this, source, Tail(fs))

\* ControlPoint2.copy / ControlPoint3.copy: every field is copied into the
\* object this already holds, and the two flags are assigned.
ControlPoint_copy(h, this, source) ==
  [CopyFields(h, this, source, FieldsOf(h[this].class))
     EXCEPT ![this].isSyncRadius = h[source].isSyncRadius,
            ![this].isSyncAngle = h[source].isSyncAngle]

\* clone(): new this.constructor().copy(this)
ControlPoint_clone(h, source) ==
  LET n == New_ControlPoint(h, h[source].class, DefaultOf(h[source].class))
  IN [heap |-> ControlPoint_copy(n.heap, n.id, source), id |-> n.id]

\* for (...) this.cps.push(cp.clone())
RECURSIVE CloneEach(_, _)
CloneEach(h, ids) ==
  IF ids = <<>> THEN [heap |-> h, ids |-> <<>>]
  ELSE LET c == ControlPoint_clone(h, Head(ids))
           rest == CloneEach(c.heap, Tail(ids))
       IN [ids |-> <<c.id>> \o rest.ids, heap |-> rest.heap]

\* Curve2.copy: this.cps = [] and a clone of every control point of source.
\* (super.copy clones the segments, which are not kept here.)
Curve_copy(h, this, source) ==
  LET c == CloneEach(h, h[source].cps)
  IN [c.heap EXCEPT ![this].cps = c.ids]

Curve_clone(h, source) ==
  LET id == Len(h) + 1
  IN [heap |-> Curve_copy(Append(h, [class |-> h[source].class, cps |-> <<>>]),
                          id, source),
      id |-> id]

\* v instanceof Curve (Tube.copy), v instanceof THREE.Curve
\* (TubeBaseGeometry.copy)
isCurve(h, e) == e.isRef /\ h[e.v].class \in {"Curve2", "Curve3"}

\* Object.entries(source.parameters).forEach(([k, v]) => { if (v instanceof
\* Curve) this.parameters[k] = v.clone(); }), on the two parameters objects.
RECURSIVE CloneCurves(_, _, _, _)
CloneCurves(h, this, source, keys) ==
  IF keys = <<>> THEN h
  ELSE LET k == Head(keys)
           e == h[source].entries[k]
       IN IF isCurve(h, e)
            THEN LET c == Curve_clone(h, e.v)
                 IN CloneCurves([c.heap EXCEPT ![this].entries[k] = Ref(c.id)],
                                this, source, Tail(keys))
          ELSE CloneCurves(h, this, source, Tail(keys))

\* copy(source) stopping after Object.assign({}, source.parameters).
Tube_copy_shallow(h, this, source) ==
  [Append(h, [class |-> "Object", entries |-> h[h[source].parameters].entries])
     EXCEPT ![this].parameters = Len(h) + 1]

\* Tube.copy and TubeBaseGeometry.copy: this.parameters = Object.assign({},
\* source.parameters), then a clone of every curve among them.
Tube_copy(h, this, source) ==
  LET p == Len(h) + 1
      h1 == Append(h, [class |-> "Object",
                       entries |-> h[h[source].parameters].entries])
  IN CloneCurves([h1 EXCEPT ![this].parameters = p], p, h[source].parameters,
                 ParameterKeys)

Tube_clone(h, source) ==
  LET id == Len(h) + 2
      h1 == h \o <<[class |-> "Object", entries |-> <<>>],
                   [class |-> h[source].class, parameters |-> Len(h) + 1]>>
  IN [heap |-> Tube_copy(h1, id, source), id |-> id]

\* source.clone()
Clone(h, source) ==
  CASE h[source].class \in {"ControlPoint2", "ControlPoint3"} ->
         ControlPoint_clone(h, source)
    [] h[source].class \in {"Curve2", "Curve3"} -> Curve_clone(h, source)
    [] h[source].class \in {"Tube", "TubeBaseGeometry"} -> Tube_clone(h, source)

\* The objects of a curve and of a tube as their constructors are given them.
RECURSIVE NewEach(_, _, _)
NewEach(h, class, vs) ==
  IF vs = <<>> THEN [heap |-> h, ids |-> <<>>]
  ELSE LET c == New_ControlPoint(h, class, Head(vs))
           rest == NewEach(c.heap, class, Tail(vs))
       IN [ids |-> <<c.id>> \o rest.ids, heap |-> rest.heap]

New_Curve(h, class, vs) ==
  LET c == NewEach(h, CpClassOf(class), vs)
  IN [heap |-> Append(c.heap, [class |-> class, cps |-> c.ids]),
      id |-> Len(c.heap) + 1]

RECURSIVE NewEntries(_, _, _)
NewEntries(h, p, keys) ==
  IF keys = <<>> THEN [heap |-> h, entries |-> <<>>]
  ELSE LET k == Head(keys)
       IN IF k \in DOMAIN CurveParameters
            THEN LET c == New_Curve(h, CurveParameters[k], p[k].cps)
                     rest == NewEntries(c.heap, p, Tail(keys))
                 IN [entries |-> (k :> Ref(c.id)) @@ rest.entries, heap |-> rest.heap]
          ELSE LET rest == NewEntries(h, p, Tail(keys))
               IN [entries |-> (k :> Prim(p[k])) @@ rest.entries, heap |-> rest.heap]

New_Tube(h, class, p) ==
  LET e == NewEntries(h, p, ParameterKeys)
      n == Len(e.heap)
  IN [heap |-> e.heap \o <<[class |-> "Object", entries |-> e.entries],
                           [class |-> class, parameters |-> n + 1]>>,
      id |-> n + 2]

\* The values an object holds, those of the objects it refers to included.
RECURSIVE ValueOf(_, _)
ValueOf(h, id) ==
  LET o == h[id]
  IN CASE o.class = "value" -> o.value
       [] o.class \in {"ControlPoint2", "ControlPoint3"} ->
            [f \in DOMAIN o.fields \cup {"isSyncRadius", "isSyncAngle"} |->
               IF f = "isSyncRadius" THEN o.isSyncRadius
               ELSE IF f = "isSyncAngle" THEN o.isSyncAngle
               ELSE h[o.fields[f]].value]
       [] o.class \in {"Curve2", "Curve3"} ->
            [class |-> o.class, cps |-> [i \in 1..Len(o.cps) |-> ValueOf(h, o.cps[i])]]
       [] o.class = "Object" ->
            [k \in DOMAIN o.entries |->
               IF o.entries[k].isRef THEN ValueOf(h, o.entries[k].v)
               ELSE o.entries[k].v]
       [] o.class \in {"Tube", "TubeBaseGeometry"} -> ValueOf(h, o.parameters)

\* The curves and the control points an object holds.
CurvesUnder(h, id) ==
  LET o == h[id]
  IN CASE o.class \in {"Curve2", "Curve3"} -> {id}
       [] o.class \in {"Tube", "TubeBaseGeometry"} ->
            {h[o.parameters].entries[k].v :
               k \in {k \in DOMAIN h[o.parameters].entries :
                        isCurve(h, h[o.parameters].entries[k])}}
       [] OTHER -> {}

CpsUnder(h, id) ==
  IF h[id].class \in {"ControlPoint2", "ControlPoint3"} THEN {id}
  ELSE UNION {{h[c].cps[i] : i \in 1..Len(h[c].cps)} : c \in CurvesUnder(h, id)}

\* The handle positions typed into a control point's panel, as offsets from
\* middlePos.
Cp2Offsets == {Vec2(0, -1), Vec2(0, 2)}
Cp3Offsets == {Vec3(1, 0, 0), Vec3(0, 0, 2)}

\* An update method writes the fields of the control point in place.
RECURSIVE WriteFields(_, _, _, _)
WriteFields(h, cp, v, fs) ==
  IF fs = <<>> THEN h
  ELSE WriteFields([h EXCEPT ![h[cp].fields[Head(fs)]].value = v[Head(fs)]],
                   cp, v, Tail(fs))

WriteBack(h, cp, v) == WriteFields(h, cp, v, FieldsOf(h[cp].class))

RootOf(r) == IF r = "a" THEN mem.a ELSE mem.b
OtherThan(r) == IF r = "a" THEN mem.b ELSE mem.a

\* An edit of r (the original "a" or the clone "b") that leaves the heap h.
\* otherWas keeps the values of the other object as they were.
EditOf(r, h) ==
  /\ mem' = [mem EXCEPT !.heap = h, !.edits = @ + 1, !.edited = r,
                        !.otherWas = ValueOf(mem.heap, OtherThan(r))]
  /\ UNCHANGED othersThanMemory

\* b = a.clone()
CloneIt ==
  /\ mem # [none |-> TRUE]
  /\ mem.b = 0
  /\ LET c == Clone(mem.heap, mem.a)
     IN mem' = [mem EXCEPT !.heap = c.heap, !.b = c.id]
  /\ UNCHANGED othersThanMemory

\* The left or up handle of a control point of the object is moved in its
\* panel: leftPos or upPos is written and updateFromLeftPos or
\* updateFromUpPos runs.
EditControlPoint ==
  /\ mem # [none |-> TRUE]
  /\ mem.b # 0 /\ mem.edits < MaxEvents
  /\ \E r \in {"a", "b"} :
       \E cp \in CpsUnder(mem.heap, RootOf(r)) :
         LET v == ValueOf(mem.heap, cp)
         IN IF mem.heap[cp].class = "ControlPoint2"
              THEN \E d \in Cp2Offsets :
                     LET w == updateFromLeftPos(
                                [v EXCEPT !.leftPos = Add2(v.middlePos, d)])
                     IN w # v /\ EditOf(r, WriteBack(mem.heap, cp, w))
            ELSE \E d \in Cp3Offsets :
                   LET w == updateFromUpPos(
                              [v EXCEPT !.upPos = Add3(v.middlePos, d)])
                   IN w # v /\ EditOf(r, WriteBack(mem.heap, cp, w))

\* addCpToLast() or removeCp(0) on a curve of the object.
EditStructure ==
  /\ mem # [none |-> TRUE]
  /\ mem.b # 0 /\ mem.edits < MaxEvents
  /\ \E r \in {"a", "b"} :
       \E c \in CurvesUnder(mem.heap, RootOf(r)) :
         LET ids == mem.heap[c].cps
         IN \/ LET n == IF ids # <<>>
                           THEN ControlPoint_clone(mem.heap, ids[Len(ids)])
                         ELSE New_ControlPoint(mem.heap, CpClassOf(mem.heap[c].class),
                                               DefaultOf(CpClassOf(mem.heap[c].class)))
               IN EditOf(r, [n.heap EXCEPT ![c].cps = Append(@, n.id)])
            \/ /\ ids # <<>>
               /\ EditOf(r, [mem.heap EXCEPT ![c].cps = Tail(@)])

\* A number typed into the panel of a tube.
EditScalar ==
  /\ mem # [none |-> TRUE]
  /\ mem.b # 0 /\ mem.edits < MaxEvents
  /\ \E r \in {"a", "b"} :
       /\ mem.heap[RootOf(r)].class \in {"Tube", "TubeBaseGeometry"}
       /\ \E k \in {"scaleN", "xCurvatureN", "tiltN", "axisSegments"}, v \in {1, 2} :
            LET p == mem.heap[RootOf(r)].parameters
            IN /\ mem.heap[p].entries[k] # Prim(v)
               /\ EditOf(r, [mem.heap EXCEPT ![p].entries[k] = Prim(v)])

\* The original: a tube or a tube geometry with the sample parameters, an
\* arch of two control points, or a control point.
InitMemory ==
  /\ \E o \in {New_Tube(<<>>, "Tube", SampleTube(1, MinCrossSegments)),
               New_Tube(<<>>, "TubeBaseGeometry", SampleTube(1, MinCrossSegments)),
               New_Curve(<<>>, "Curve2", <<ArchL, ArchR(TRUE, FALSE)>>),
               New_ControlPoint(<<>>, "ControlPoint3", DefaultControlPoint3)} :
       mem = [heap |-> o.heap, a |-> o.id, b |-> 0, edits |-> 0,
              edited |-> "none", otherWas |-> [none |-> TRUE]]
  /\ NoCurve
  /\ NoTube
  /\ NoPoint
  /\ NoJSON
  /\ NoVertex
  /\ NoSurface
  /\ NoScene
  /\ NoTrig
  /\ NoModulation
  /\ NoHistory
  /\ NoGui

NextMemory == CloneIt \/ EditControlPoint \/ EditStructure \/ EditScalar

SpecMemory == InitMemory /\ [][NextMemory]_vars

-----------------------------------------------------------------------------
(* The post-pass of generateSegment on a grid whose transformed cross points
   step by a constant per ring and by a constant per column *)

\* CPsAfter[(crossSegments + 1) * i + j] = P0 + i * A + j * B
AffineGrid(as, cs, P0, A, B) ==
  [n \in 1..GridSize(as, cs) |->
     LET i == (n - 1) \div (cs + 1)
         j == (n - 1) % (cs + 1)
     IN Vec2(Num(P0.x + i * A.x + j * B.x), Num(P0.y + i * A.y + j * B.y))]

\* The steps per ring and per column explored. The columns step along a
\* coordinate axis, which keeps Math.sqrt(c.x ** 2 + c.y ** 2) an integer.
RingSteps == {Vec2(0, 0), Vec2(1, 0), Vec2(0, 2), Vec2(-1, 1)}
ColumnSteps == {Vec2(1, 0), Vec2(0, 1), Vec2(0, -2), Vec2(-2, 0)}

\* The normals of the first pass, the same at every vertex: a unit vector
\* across the axis, or the zero vector normalize() leaves of a zero tangent.
FirstPassNormals == {Vec3(Num(0), Num(1), Num(0)), Vec3(Num(0), Num(0), Num(0))}

\* generateSegment after its first loop, on such a grid. A unit normal plus a
\* multiple of the tangent has an integer length only if the multiple is 0.
InitAffine ==
  /\ \E as \in 1..MaxAxisSegments, cs \in 1..2, A \in RingSteps,
        B \in ColumnSteps, n \in FirstPassNormals :
       /\ (n.y = Num(0) \/ A.x * B.y = A.y * B.x)
       /\ geo = [axisSegments |-> as, crossSegments |-> cs,
                 p |-> Resolve([scaleN |-> Num(1), xScaleN |-> Num(1),
                                yScaleN |-> Num(1), xCurvatureN |-> Num(0),
                                yCurvatureN |-> Num(0), tiltN |-> 0,
                                curvatureOrder |-> "xy"], DefaultModulation),
                 pass |-> "second", i |-> 0, j |-> 0,
                 CPsAfter |-> AffineGrid(as, cs, Vec2(1, 0), A, B),
                 normals |-> [k \in 1..GridSize(as, cs) |-> n],
                 vertices |->
                   [k \in 1..GridSize(as, cs) |->
                      vertexOf(AffineGrid(as, cs, Vec2(1, 0), A, B)[k],
                               StraightAP((k - 1) \div (cs + 1)),
                               StraightAN, StraightAB)]]
  /\ NoCurve
  /\ NoTube
  /\ NoPoint
  /\ NoJSON
  /\ NoVertex
  /\ NoScene
  /\ NoTrig
  /\ NoLate

NextAffine == SurfaceNormalStep

SpecAffine == InitAffine /\ [][NextAffine]_vars

-----------------------------------------------------------------------------
(* The panel's folders: saveClosed and loadClosed *)

\* A folder of the panel: its title, whether it is closed, its sub-folders.
Folder(title, closed, folders) ==
  [title |-> title, closed |-> closed, folders |-> folders]

FolderTitles == {"curve", "cps"}

\* The trees explored: the panel, up to two folders in it, up to one folder
\* in each of those.
LeafFolders == {Folder(t, c, <<>>) : t \in FolderTitles, c \in BOOLEAN}
InnerFolders ==
  LeafFolders \cup {Folder(t, c, <<f>>) : t \in FolderTitles, c \in BOOLEAN,
                                          f \in LeafFolders}
PanelTrees ==
  {Folder("gui", c, fs) :
     c \in BOOLEAN,
     fs \in {<<>>} \cup {<<f>> : f \in InnerFolders}
            \cup {<<f, g>> : f \in InnerFolders, g \in InnerFolders}}

\* saveClosed(gui): _closed and, per title, what saveClosed returns for the
\* folder of that title; { ...acc, [f._title]: ... } keeps the last one.
RECURSIVE saveClosed(_)
saveClosed(g) ==
  [closed |-> g.closed,
   folders |->
     [t \in {g.folders[k].title : k \in 1..Len(g.folders)} |->
        LET k == CHOOSE k \in 1..Len(g.folders) :
                   /\ g.folders[k].title = t
                   /\ \A l \in (k + 1)..Len(g.folders) : g.folders[l].title # t
        IN saveClosed(g.folders[k])]]

\* loadClosed(gui, closedObj): gui.open(!closedObj._closed), then the folders
\* in order, each with closedObj.folders[f._title]. Reading _closed of
\* undefined throws, which ends the whole call.
RECURSIVE loadClosed(_, _)
RECURSIVE LoadEach(_, _)
loadClosed(g, closedObj) ==
  IF closedObj = Undefined THEN [gui |-> g, threw |-> TRUE]
  ELSE LET r == LoadEach(g.folders, closedObj)
       IN [gui |-> Folder(g.title, closedObj.closed, r.folders),
           threw |-> r.threw]

LoadEach(fs, closedObj) ==
  IF fs = <<>> THEN [folders |-> <<>>, threw |-> FALSE]
  ELSE LET f == Head(fs)
           r == loadClosed(f, IF f.title \in DOMAIN closedObj.folders
                                THEN closedObj.folders[f.title] ELSE Undefined)
       IN IF r.threw THEN [folders |-> <<r.gui>> \o Tail(fs), threw |-> TRUE]
          ELSE LET rest == LoadEach(Tail(fs), closedObj)
               IN [folders |-> <<r.gui>> \o rest.folders, threw |-> rest.threw]

\* The folders of a tree, as paths of indices.
PathsOf(g) ==
  {<<>>} \cup {<<k>> : k \in 1..Len(g.folders)}
         \cup {<<k, 1>> : k \in {k \in 1..Len(g.folders) :
                                   g.folders[k].folders # <<>>}}

\* A click on the title of the folder at path: it opens or closes.
ToggleAt(g, path) ==
  IF Len(path) = 0 THEN [g EXCEPT !.closed = ~@]
  ELSE IF Len(path) = 1 THEN [g EXCEPT !.folders[path[1]].closed = ~@]
  ELSE [g EXCEPT !.folders[path[1]].folders[path[2]].closed = ~@]

\* closedObj = saveClosed(gui)
SaveClosed ==
  /\ gui # [none |-> TRUE]
  /\ gui' = [gui EXCEPT !.closedObj = saveClosed(gui.tree),
                        !.whenSaved = gui.tree,
                        !.threw = FALSE,
                        !.lastOp = "save"]
  /\ UNCHANGED othersThanGui

\* A folder is opened or closed by the user.
ToggleFolder ==
  /\ gui # [none |-> TRUE]
  /\ \E path \in PathsOf(gui.tree) :
       gui' = [gui EXCEPT !.tree = ToggleAt(gui.tree, path),
                          !.threw = FALSE,
                          !.lastOp = "toggle"]
  /\ UNCHANGED othersThanGui

\* loadClosed(gui, closedObj)
LoadClosed ==
  /\ gui # [none |-> TRUE]
  /\ gui.closedObj # [none |-> TRUE]
  /\ LET r == loadClosed(gui.tree, gui.closedObj)
     IN gui' = [gui EXCEPT !.tree = r.gui, !.threw = r.threw, !.lastOp = "load"]
  /\ UNCHANGED othersThanGui

InitPanelTree ==
  /\ \E g \in PanelTrees :
       gui = [tree |-> g, closedObj |-> [none |-> TRUE],
              whenSaved |-> [none |-> TRUE], threw |-> FALSE, lastOp |-> "new"]
  /\ NoCurve
  /\ NoTube
  /\ NoPoint
  /\ NoJSON
  /\ NoVertex
  /\ NoSurface
  /\ NoScene
  /\ NoTrig
  /\ NoModulation
  /\ NoHistory
  /\ NoMemory

NextPanelTree == SaveClosed \/ ToggleFolder \/ LoadClosed

SpecPanelTree == InitPanelTree /\ [][NextPanelTree]_vars

-----------------------------------------------------------------------------
(* Properties of the serialization *)

\* C6: the object restored by fromJSON from what toJSON returned equals the
\* serialized one, for a Tube (every control point of its eight curves with
\* its positions, offset vectors, spherical or polar forms, angle triples and
\* sync flags, the six scalar parameters, the two segment counts and
\* curvatureOrder), for a ControlPoint3 and for a Curve2 on their own.
C6_RoundTrip == restored # [none |-> TRUE] => restored = subject

\* A tube has been restored whose axis starts with a control point shrunk to
\* radius 0 (its down handle keeps phi and theta of the opposite direction),
\* and whose segment counts and curvatureOrder were changed in the panel.
C6_Witness ==
  /\ target = "tube" /\ restored = subject
  /\ subject.axis.cps[1].downS = Spherical(0, Pi, Pi)
  /\ subject.axisSegments = MaxAxisSegments
  /\ subject.crossSegments = MaxCrossSegments
  /\ subject.curvatureOrder = "yx"

-----------------------------------------------------------------------------
(* Properties of the control points *)

Neg3(v) == Vec3(-v.x, -v.y, -v.z)

\* C7: for a ControlPoint3 with both sync flags set, once an edit of the up
\* handle (position, radius or one of the three angles) and its update have
\* run, the down handle is the opposite of the up handle in every stored form:
\* downV = -upV, downS has upS's radius, the reversed phi and theta rotated by
\* pi, downA is the angle triple of -upV and downPos = middlePos - upV.
C7_DownIsMinusUp ==
  (kind = "cp3" /\ lastOp = "up" /\ point.isSyncRadius /\ point.isSyncAngle)
    => /\ point.downV = Neg3(point.upV)
       /\ point.downS.radius = point.upS.radius
       /\ point.downS.phi = reverseInPI(point.upS.phi)
       /\ point.downS.theta = rotatePI(point.upS.theta)
       /\ point.downA = getA(Neg3(point.upV))
       /\ point.downPos = Sub3(point.middlePos, point.upV)

\* With both flags set and the middle point moved, the up handle has been
\* turned to the x axis and the down handle has followed to the other side.
C7_Witness ==
  /\ kind = "cp3" /\ lastOp = "up" /\ point.isSyncRadius /\ point.isSyncAngle
  /\ point.middlePos = Vec3(1, 0, 0)
  /\ point.upV = Vec3(1, 0, 0)
  /\ point.downPos = Vec3(0, 0, 0)

\* C8: once an edit of a control point (ControlPoint3 or ControlPoint2, any
\* sync flags) and its update have run, each handle's three representations
\* agree: its position is middlePos plus its offset vector, its spherical or
\* polar form denotes the offset vector, and (ControlPoint3) its angle triple
\* is that of the offset vector.  The constructor establishes this and every
\* update (of the middle point, of a handle) keeps it.
C8_Consistent ==
  /\ kind = "cp3"
       => /\ point.upPos = Add3(point.middlePos, point.upV)
          /\ Vector3_setFromSpherical(point.upS) = point.upV
          /\ point.upA = getA(point.upV)
          /\ point.downPos = Add3(point.middlePos, point.downV)
          /\ Vector3_setFromSpherical(point.downS) = point.downV
          /\ point.downA = getA(point.downV)
  /\ kind = "cp2"
       => /\ point.leftPos = Add2(point.middlePos, point.leftV)
          /\ Circular_toVector2(point.leftC) = point.leftV
          /\ point.rightPos = Add2(point.middlePos, point.rightV)
          /\ Circular_toVector2(point.rightC) = point.rightV

\* With only the radius synchronised and the middle point moved, the up
\* handle's radius has been set to 0 away from the y axis: both handles
\* collapse onto the middle point and keep their directions.
C8_Witness ==
  /\ kind = "cp3" /\ lastOp = "up" /\ point.isSyncRadius /\ ~point.isSyncAngle
  /\ point.middlePos = Vec3(1, 0, 0)
  /\ point.upS.radius = 0 /\ point.upS.phi = 1
  /\ point.downS.radius = 0 /\ point.downPos = point.middlePos

-----------------------------------------------------------------------------
(* Properties of the curve *)

\* C1: in the incremental revision, after any sequence of addCp, removeCp and
\* updateCp calls with valid or invalid indices, starting from any curve (the
\* empty and the one-point curve included), curves has max(0, N - 1) entries
\* for the N control points.
C1_SegmentCount == rev = "fill" => Len(curves) = Max(0, Len(cps) - 1)

\* addCp(0, cp) on the empty curve has returned and left one entry in curves.
C1_Witness ==
  /\ rev = "fill" /\ last.op = "addCp" /\ last.index = Idx(0) /\ last.n = 0
  /\ Len(cps) = 1 /\ curves = <<Undefined>>

\* C2: once a structural change (addCpToFirst, addCpToLast, interpolateCp,
\* removeCp, addCp, updateCp) has returned, the segment list is the one
\* regenerated from the control points: segment i is the Bezier curve of
\* cps[i].middlePos, cps[i].rightPos, cps[i+1].leftPos, cps[i+1].middlePos.
C2_Regenerated == rev \in {"plain", "gui", "panel"} => curves = updateCurves(cps)

\* addCpToLast has returned on a one-point curve and there is still no segment.
C2_Witness ==
  /\ rev = "gui" /\ last.op = "addCpToLast" /\ last.n = 1
  /\ Len(cps) = 2 /\ curves = <<>>

\* The indices an operation accepts on a list of n control points.
ValidIndices(op, n) ==
  CASE op = "addCp" -> 0..n
    [] op \in {"removeCp", "updateCp"} -> 0..(n - 1)
    [] op = "interpolateCp" -> 1..(n - 1)
    [] OTHER -> {0}

InvalidIndexCall ==
  /\ last' # last \/ cps' # cps \/ curves' # curves
  /\ ~last'.index.isInteger \/ last'.index.n \notin ValidIndices(last'.op, Len(cps))

\* C3: a call of addCp, removeCp, updateCp or interpolateCp with an invalid
\* index (not an integer, or outside [0,N] for addCp, [0,N-1] for removeCp and
\* updateCp, [1,N-1] for interpolateCp) reports an error and changes neither
\* cps nor curves.
C3_InvalidIndexNoOp ==
  [][InvalidIndexCall => last'.reported /\ cps' = cps /\ curves' = curves]_vars

\* removeCp(-1) has been called on a curve of two or more points.
C3_Witness ==
  /\ rev = "gui" /\ last.op = "removeCp" /\ last.index = Idx(-1)
  /\ last.reported /\ Len(cps) >= 2

Scale2(k, v) == Vec2(k * v.x, k * v.y)
Sum2(a, b, c, d) == Add2(Add2(a, b), Add2(c, d))

\* C9: interpolateCp(1) on a two-point curve with Bezier points P0, P1, P2, P3
\* gives three points; the new point has leftPos (P0 + 2 P1 + P2) / 4,
\* rightPos (P1 + 2 P2 + P3) / 4 and middlePos (P0 + 3 P1 + 3 P2 + P3) / 8, and
\* the neighbours' facing handles are (P0 + P1) / 2 and (P2 + P3) / 2.
C9_Midpoint ==
  [][(/\ rev \in {"gui", "panel"}
      /\ Len(cps) = 2 /\ Len(cps') = 3
      /\ last'.op = "interpolateCp" /\ last'.index = Idx(1))
     => LET P0 == cps[1].middlePos
            P1 == cps[1].rightPos
            P2 == cps[2].leftPos
            P3 == cps[2].middlePos
        IN /\ Scale2(4, cps'[2].leftPos) = Sum2(P0, Scale2(2, P1), P2, Vec2(0, 0))
           /\ Scale2(4, cps'[2].rightPos) = Sum2(P1, Scale2(2, P2), P3, Vec2(0, 0))
           /\ Scale2(8, cps'[2].middlePos) = Sum2(P0, Scale2(3, P1), Scale2(3, P2), P3)
           /\ Scale2(2, cps'[1].rightPos) = Add2(P0, P1)
           /\ Scale2(2, cps'[3].leftPos) = Add2(P2, P3)]_vars

\* interpolateCp(1) has split the arch whose right end syncs the radius only:
\* the new point's right handle points down instead of along the curve.
C9_Witness ==
  /\ rev = "gui" /\ last.op = "interpolateCp" /\ last.index = Idx(1) /\ last.n = 2
  /\ Len(cps) = 3
  /\ cps[1].middlePos = Vec2(0, 0) /\ cps[3].middlePos = Vec2(4 * Unit, 0)
  /\ cps[2].isSyncRadius /\ ~cps[2].isSyncAngle
  /\ cps[2].rightV.x = 0 /\ cps[2].rightV.y < 0

\* C10: removeCp(k) on an interior point of a curve with N points and its
\* N - 1 segments leaves N - 1 points and N - 2 segments: segment k - 1 is the
\* Bezier curve of the old cps[k-1].middlePos, cps[k-1].rightPos,
\* cps[k+1].leftPos, cps[k+1].middlePos, and the other segments are the old
\* ones, those after k shifted down by one.
C10_RemoveInterior ==
  [][(/\ rev \in {"fill", "gui", "panel"}
      /\ curves = updateCurves(cps)
      /\ last'.op = "removeCp" /\ last'.index.isInteger
      /\ last'.index.n \in 1..(Len(cps) - 2)
      /\ Len(cps') = Len(cps) - 1)
     => LET k == last'.index.n
        IN /\ Len(curves') = Len(cps) - 2
           /\ \A i \in 1..(Len(cps) - 2) :
                curves'[i] = IF i < k THEN curves[i]
                             ELSE IF i = k THEN CubicBezierCurve(cps[k], cps[k + 2])
                             ELSE curves[i + 1]]_vars

\* removeCp(1) has returned on a three-point curve and both old segments remain.
C10_Witness ==
  /\ rev = "gui" /\ last.op = "removeCp" /\ last.index = Idx(1) /\ last.n = 3
  /\ Len(cps) = 2 /\ Len(curves) = 2

-----------------------------------------------------------------------------
(* Properties of the tube generator *)

\* C4: for every axisSegments >= 1 and crossSegments >= 3, the finished index
\* buffer holds 6 * axisSegments * crossSegments indices (two triangles per
\* quad) and every index lies in [0, (axisSegments + 1)(crossSegments + 1)).
C4_IndexBuffer ==
  /\ \A k \in 1..Len(indices) :
       indices[k] \in 0..(GridSize(axisSegments, crossSegments) - 1)
  /\ pc = "done" => Len(indices) = 6 * axisSegments * crossSegments

\* The generator has finished the largest tube's buffer, whose last triangle
\* ends at the last vertex of the ring before the last.
C4_Witness ==
  /\ pc = "done"
  /\ axisSegments = MaxAxisSegments /\ crossSegments = MaxCrossSegments
  /\ Len(indices) > 0
  /\ indices[Len(indices) - 1] = GridSize(axisSegments, crossSegments) - 1

\* C5: in the correction of the normals, every CPsAfter entry read for vertex
\* (i, j) lies in [0, (axisSegments + 1)(crossSegments + 1)); besides the vertex
\* itself the entries read are column j of ring 1 for ring 0, of ring
\* axisSegments - 1 for the last ring, of both neighbouring rings for an
\* interior ring, and in ring i column 1 for column 0 and column j - 1 for
\* every other column.
C5_NeighbourReads ==
  /\ pc # "threw"
  /\ reads # {} =>
       LET c == crossSegments
           n0s == {r.n : r \in {q \in reads : q.name = "n22"}}
       IN /\ \A r \in reads : r.n \in 0..(GridSize(axisSegments, c) - 1)
          /\ \E i \in 0..axisSegments, j \in 0..c :
               /\ n0s = {(c + 1) * i + j}
               /\ {r.n : r \in reads} \ n0s =
                    {(c + 1) * ring + j :
                       ring \in IF i = 0 THEN {1}
                                ELSE IF i = axisSegments THEN {axisSegments - 1}
                                ELSE {i - 1, i + 1}}
                    \cup {(c + 1) * i + (IF j = 0 THEN 1 ELSE j - 1)}

\* The normal of column 0 of an interior ring has been corrected.
C5_Witness ==
  /\ pc = "correct" /\ loopI = 1 /\ loopJ = 1 /\ axisSegments = 2
  /\ [name |-> "n23", n |-> crossSegments + 2] \in reads
  /\ [name |-> "n12", n |-> 0] \in reads
  /\ [name |-> "n32", n |-> 2 * (crossSegments + 1)] \in reads

\* C11: the generator's loops over the rings never run with axisSegments < 1
\* or crossSegments < 3, wherever the counts came from (panel, constructor
\* argument, deserialized parameters): such a request is rejected or clamped
\* before any buffer is produced.
C11_CountsChecked ==
  pc \in {"segment", "correct", "uvs", "indices"}
    => axisSegments >= 1 /\ crossSegments >= MinCrossSegments

\* A tube deserialized with crossSegments = 2 has been generated to the end.
C11_Witness ==
  /\ origin = "json" /\ pc = "done"
  /\ crossSegments = 2
  /\ Len(indices) = 6 * axisSegments * crossSegments

-----------------------------------------------------------------------------
(* Properties of the generated values *)

\* C12: no component of a generated position or normal is NaN or infinite,
\* also where the cross section has radius zero (scale, xScale or yScale 0)
\* or neighbouring cross points coincide.
C12_FiniteBuffers ==
  geo # [none |-> TRUE] =>
    /\ \A n \in 1..Len(geo.vertices) : isFinite3(geo.vertices[n])
    /\ \A n \in 1..Len(geo.normals) : isFinite3(geo.normals[n])

\* A finished tube with scale 0: every position is finite and on the axis,
\* and the normal of vertex (0, 0) is NaN.
C12_Witness ==
  /\ geo # [none |-> TRUE]
  /\ geo.pass = "done"
  /\ geo.p.scale = Num(0)
  /\ \A n \in 1..Len(geo.vertices) : isFinite3(geo.vertices[n])
  /\ isNaN(geo.normals[1].x)

\* A curvature that is not finite counts as 0.
AsZeroUnlessFinite(p) ==
  [p EXCEPT !.xCurvature = IF isFinite(@) THEN @ ELSE Num(0),
            !.yCurvature = IF isFinite(@) THEN @ ELSE Num(0)]

\* C13: a resolved xCurvature or yCurvature that is NaN or infinite is treated
\* as curvature 0: the vertex and the normal that come out are the ones that
\* come out with 0 in its place, and they are finite.
C13_NonFiniteCurvature ==
  (vtx # [none |-> TRUE] /\ vtx.at = "done"
     /\ (~isFinite(vtx.p.xCurvature) \/ ~isFinite(vtx.p.yCurvature)))
  => LET raw == SquareCross[vtx.j + 1]
         p0 == AsZeroUnlessFinite(vtx.p)
     IN /\ vtx.vertex = vertexOf(transformCP(p0, raw.CP), StraightAP(0),
                                 StraightAN, StraightAB)
        /\ vtx.normal = normalOf(transformCB(p0, raw.CP, raw.CB),
                                 StraightAN, StraightAB)
        /\ isFinite3(vtx.vertex) /\ isFinite3(vtx.normal)

\* A vertex computed with xCurvature NaN and yCurvature 0: its position is NaN.
C13_Witness ==
  /\ vtx # [none |-> TRUE] /\ vtx.at = "done"
  /\ vtx.p.xCurvature = NaN /\ vtx.p.yCurvature = Num(0)
  /\ isFinite2(vtx.scaledCP)
  /\ isNaN(vtx.vertex.x) /\ isNaN(vtx.normal.x)

-----------------------------------------------------------------------------
(* Properties of the angle utilities *)

\* C14: safeAsin and safeAcos never yield NaN: with hypotenuse 0 they return
\* 0, with a ratio above 1 or below -1 the value at the clamp bound (asin: a
\* quarter turn up or down; acos: 0 or pi); and after every handle update phi
\* and theta of both handles are angles, phi in [0, pi], theta in [0, 2 pi].
C14_NoNaN ==
  /\ trig.fn # "none" =>
       /\ isFinite(trig.result)
       /\ trig.hypotenuse = 0 => trig.result = Num(0)
       /\ (trig.hypotenuse > 0 /\ trig.side >= trig.hypotenuse) =>
            trig.result = (IF trig.fn = "safeAsin" THEN Num(1) ELSE Num(0))
       /\ (trig.hypotenuse > 0 /\ trig.side <= -trig.hypotenuse) =>
            trig.result = (IF trig.fn = "safeAsin" THEN Num(-1) ELSE Num(Pi))
  /\ kind = "cp3" =>
       /\ point.upS.phi \in 0..Pi /\ point.upS.theta \in 0..(2 * Pi)
       /\ point.downS.phi \in 0..Pi /\ point.downS.theta \in 0..(2 * Pi)

\* safeAcos was called with a ratio of 2, and an edit of the up handle's
\* angle about x or z has turned the handle a quarter turn from the y axis.
C14_Witness ==
  /\ trig.fn = "safeAcos" /\ trig.side = 2 * trig.hypotenuse /\ trig.hypotenuse > 0
  /\ kind = "cp3" /\ point.upS.radius > 0 /\ point.upS.phi = 1 /\ lastOp = "up"

-----------------------------------------------------------------------------
(* Properties of the tube panel *)

\* C15: after every event of the tube's panel the mesh shows a geometry that
\* is not the one shown before, generated from the current values of all
\* parameters; the wireframe is made of that geometry; and the geometry shown
\* before is disposed with its buffers as they were generated.
C15_Regenerated ==
  target = "panel" =>
    /\ scene.mesh.id # scene.previous.id
    /\ scene.mesh.parameters = subject /\ scene.mesh.buffersOf = subject
    /\ ~scene.mesh.disposed
    /\ scene.wireframe.of = scene.mesh.id
    /\ scene.wireframe.buffersOf = subject
    /\ scene.previous.disposed
    /\ scene.previous.buffersOf = scene.previous.parameters

\* Two events, the second an edit of the axis curve: the geometry shown
\* before it was generated from other values than the one shown now.
C15_Witness ==
  /\ target = "panel" /\ scene.events = 2
  /\ subject.axis # SampleTube(1, MinCrossSegments).axis
  /\ scene.previous.buffersOf.axis = SampleTube(1, MinCrossSegments).axis
  /\ scene.previous.buffersOf.crossSegments = MaxCrossSegments

-----------------------------------------------------------------------------
(* Properties of the index buffer's triangles *)

\* The k-th triangle of the index buffer.
Triangle(k) == <<indices[3 * k - 2], indices[3 * k - 1], indices[3 * k]>>

TriangleCount == Len(indices) \div 3

\* Twice the signed area of a triangle on the grid, a vertex index n being
\* ring n \div (crossSegments + 1), column n % (crossSegments + 1).
Winding(t) ==
  LET row(n) == n \div (crossSegments + 1)
      col(n) == n % (crossSegments + 1)
  IN (row(t[2]) - row(t[1])) * (col(t[3]) - col(t[1]))
       - (col(t[2]) - col(t[1])) * (row(t[3]) - row(t[1]))

\* C16 as stated, a, b, c, d being the corners of the quad in row-major
\* order (ring i - 1 columns j - 1 and j, then ring i columns j - 1 and j):
\* the finished buffer contains the triangles (a, b, d) and (b, c, d).
C16_RowMajorCorners ==
  pc = "done" =>
    \A i \in 1..axisSegments, j \in 1..crossSegments :
      LET a == (crossSegments + 1) * (i - 1) + (j - 1)
          b == (crossSegments + 1) * (i - 1) + j
          c == (crossSegments + 1) * i + (j - 1)
          d == (crossSegments + 1) * i + j
      IN /\ \E k \in 1..TriangleCount : Triangle(k) = <<a, b, d>>
         /\ \E k \in 1..TriangleCount : Triangle(k) = <<b, c, d>>

\* C16, a, b, c, d being the corners taken around the quad (ring i - 1
\* column j - 1, ring i column j - 1, ring i column j, ring i - 1 column j):
\* the finished buffer holds two triangles per quad and no more, those of
\* quad (i, j) are (a, b, d) and (b, c, d) in that vertex order, no triangle
\* occurs twice, all triangles have the same winding, and the two of a quad
\* share the diagonal b-d.
C16_QuadsOnce ==
  pc = "done" =>
    /\ Len(indices) = 6 * axisSegments * crossSegments
    /\ \A i \in 1..axisSegments, j \in 1..crossSegments :
         LET a == (crossSegments + 1) * (i - 1) + (j - 1)
             b == (crossSegments + 1) * i + (j - 1)
             c == (crossSegments + 1) * i + j
             d == (crossSegments + 1) * (i - 1) + j
             q == crossSegments * (i - 1) + j
         IN /\ Triangle(2 * q - 1) = <<a, b, d>>
            /\ Triangle(2 * q) = <<b, c, d>>
            /\ {b, d} = {Triangle(2 * q - 1)[n] : n \in 1..3}
                          \cap {Triangle(2 * q)[n] : n \in 1..3}
    /\ \A k, l \in 1..TriangleCount :
         /\ k # l => {Triangle(k)[n] : n \in 1..3} # {Triangle(l)[n] : n \in 1..3}
         /\ Winding(Triangle(k)) = Winding(Triangle(l))
         /\ Winding(Triangle(k)) # 0

\* The finished index buffer of the largest grid.
C16_Witness ==
  /\ pc = "done"
  /\ axisSegments = MaxAxisSegments /\ crossSegments = MaxCrossSegments
  /\ TriangleCount = 2 * MaxAxisSegments * MaxCrossSegments
  /\ Triangle(TriangleCount)[2] = GridSize(axisSegments, crossSegments) - 1

-----------------------------------------------------------------------------
(* Properties of the vertex buffers *)

\* C17: the buffers are row-major by ring: entry n of the positions, of the
\* normals and of the uvs belongs to grid vertex (i, j) with
\* n = (crossSegments + 1) * i + j, the uv there is
\* (i / axisSegments, j / crossSegments), and the finished buffers hold
\* (axisSegments + 1) * (crossSegments + 1) vertices each, all normals
\* rewritten by the second loop.
C17_RowMajorBuffers ==
  pc \in {"segment", "correct", "uvs", "indices", "done"} =>
    /\ nVertices = 3 * Len(buffers.position)
    /\ nNormals = 3 * Len(buffers.normal)
    /\ nUvs = 2 * Len(buffers.uv)
    /\ \A n \in 1..Len(buffers.position) :
         LET i == (n - 1) \div (crossSegments + 1)
             j == (n - 1) % (crossSegments + 1)
         IN /\ i \in 0..axisSegments
            /\ buffers.position[n] = [i |-> i, j |-> j]
            /\ buffers.normal[n].i = i /\ buffers.normal[n].j = j
    /\ \A n \in 1..Len(buffers.uv) :
         LET i == (n - 1) \div (crossSegments + 1)
             j == (n - 1) % (crossSegments + 1)
         IN /\ i \in 0..axisSegments
            /\ buffers.uv[n] = [x |-> Ratio(i, axisSegments),
                                y |-> Ratio(j, crossSegments)]
    /\ pc \in {"uvs", "indices", "done"} =>
         /\ Len(buffers.position) = GridSize(axisSegments, crossSegments)
         /\ Len(buffers.normal) = GridSize(axisSegments, crossSegments)
         /\ \A n \in 1..Len(buffers.normal) : buffers.normal[n].pass = 2
    /\ pc \in {"indices", "done"} =>
         Len(buffers.uv) = GridSize(axisSegments, crossSegments)

\* The finished buffers of the largest grid; the last uv is (1, 1) as
\* axisSegments / axisSegments and crossSegments / crossSegments.
C17_Witness ==
  /\ pc = "done"
  /\ axisSegments = MaxAxisSegments /\ crossSegments = MaxCrossSegments
  /\ Len(buffers.uv) = (MaxAxisSegments + 1) * (MaxCrossSegments + 1)
  /\ buffers.uv[Len(buffers.uv)] =
       [x |-> Ratio(MaxAxisSegments, MaxAxisSegments),
        y |-> Ratio(MaxCrossSegments, MaxCrossSegments)]
  /\ buffers.normal[1] = [i |-> 0, j |-> 0, pass |-> 2]

-----------------------------------------------------------------------------
(* Properties of the bend step *)

\* The axes of the bends applied to CP or to CB, in the order of the calls.
BendsOf(what) ==
  LET calls == SelectSeq(vtx.log, LAMBDA c : c.of = what)
  IN [n \in 1..Len(calls) |-> calls[n].axis]

\* The rotation that a bend of the cross point by theta gives its frame: the
\* x bend turns it by -theta, the y bend by theta.
DeflectionOfCP(call) ==
  IF call.axis = "x" THEN Negate(call.angle) ELSE call.angle

\* C18: for finite non-zero xCurvature and yCurvature, each bend rotates the
\* binormal by the deflection the cross point underwent in that bend, and the
\* bends are applied to the binormal in the order they are applied to the
\* point.
C18_SameDeflection ==
  (vtx # [none |-> TRUE] /\ vtx.at = "done"
     /\ isFinite(vtx.p.xCurvature) /\ vtx.p.xCurvature # Num(0)
     /\ isFinite(vtx.p.yCurvature) /\ vtx.p.yCurvature # Num(0))
  => /\ BendsOf("CB") = BendsOf("CP")
     /\ \A a, b \in 1..Len(vtx.log) :
          (vtx.log[a].of = "CP" /\ vtx.log[b].of = "CB"
             /\ vtx.log[a].axis = vtx.log[b].axis)
          => vtx.log[b].angle = DeflectionOfCP(vtx.log[a])

\* Order "xy", both curvatures 1, scaled cross point (-1, 1): the x bend
\* takes the point to (1, 2), the y bend then turns it by 1 * yCurvature,
\* while the binormal is turned by -1 * yCurvature.
C18_Witness ==
  /\ vtx # [none |-> TRUE] /\ vtx.at = "done"
  /\ vtx.p.curvatureOrder = "xy"
  /\ vtx.p.xCurvature = Num(1) /\ vtx.p.yCurvature = Num(1)
  /\ vtx.scaledCP = Vec2(Num(-1), Num(1))
  /\ vtx.log[2] = [of |-> "CP", axis |-> "y", early |-> FALSE, angle |-> Num(1)]
  /\ vtx.log[4] = [of |-> "CB", axis |-> "y", early |-> FALSE, angle |-> Num(-1)]

\* The stages after the cross point, and after the binormal, has been tilted.
PastTiltCP == {"scaleCB", "bendCB", "emit", "done"}
PastTiltCB == {"emit", "done"}

\* C19: with curvatureOrder "xy" the x bend comes before the y bend, with
\* "yx" the y bend before the x bend; each is applied once, to the scaled
\* point and binormal, and the tilt is applied to the result.
C19_BendOrder ==
  vtx # [none |-> TRUE] =>
    LET p == vtx.p
        raw == SquareCross[vtx.j + 1]
        first == IF p.curvatureOrder = "xy" THEN "x" ELSE "y"
        second == IF p.curvatureOrder = "xy" THEN "y" ELSE "x"
        X(CP) == applyXCurvatureToCP(p.xCurvature, CP)
        Y(CP) == applyYCurvatureToCP(p.yCurvature, CP)
    IN /\ vtx.at \in PastTiltCP =>
            /\ BendsOf("CP") = <<first, second>>
            /\ vtx.scaledCP = scaleOfCP(p, raw.CP)
            /\ vtx.bentCP = (IF p.curvatureOrder = "xy" THEN Y(X(vtx.scaledCP))
                             ELSE X(Y(vtx.scaledCP)))
            /\ vtx.at # "done" => vtx.CP = rotateAround(vtx.bentCP, center, p.tilt)
       /\ vtx.at \in PastTiltCB =>
            /\ BendsOf("CB") = <<first, second>>
            /\ vtx.scaledCB = Vec2(Times(raw.CB.x, p.yScale), Times(raw.CB.y, p.xScale))
            /\ vtx.CB = rotateAround(vtx.bentCB, center, p.tilt)

\* A vertex bent in the order "yx" whose position differs from the one the
\* order "xy" gives.
C19_Witness ==
  /\ vtx # [none |-> TRUE] /\ vtx.at = "done"
  /\ vtx.p.curvatureOrder = "yx"
  /\ BendsOf("CP") = <<"y", "x">> /\ BendsOf("CB") = <<"y", "x">>
  /\ isFinite2(vtx.bentCP)
  /\ vtx.bentCP # applyYCurvatureToCP(vtx.p.yCurvature,
                    applyXCurvatureToCP(vtx.p.xCurvature, vtx.scaledCP))

\* C20: with xCurvature = yCurvature = 0 the bend step is the identity in
\* either order: the point and the binormal enter the tilt with their scaled
\* values, and the vertex and the normal are those of the scaled and tilted
\* point and binormal.
C20_ZeroCurvatureIdentity ==
  (vtx # [none |-> TRUE] /\ vtx.p.xCurvature = Num(0) /\ vtx.p.yCurvature = Num(0))
  => LET p == vtx.p
         raw == SquareCross[vtx.j + 1]
         CP == rotateAround(scaleOfCP(p, raw.CP), center, p.tilt)
         CB == rotateAround(Vec2(Times(raw.CB.x, p.yScale),
                                 Times(raw.CB.y, p.xScale)), center, p.tilt)
     IN /\ vtx.at \in PastTiltCP => vtx.bentCP = vtx.scaledCP
        /\ vtx.at \in PastTiltCB => vtx.bentCB = vtx.scaledCB
        /\ vtx.at = "done" =>
             /\ vtx.vertex = vertexOf(CP, StraightAP(0), StraightAN, StraightAB)
             /\ vtx.normal = normalOf(CB, StraightAN, StraightAB)

\* A finished vertex of a ring with both curvatures 0, order "yx", scaled and
\* tilted by a quarter turn.
C20_Witness ==
  /\ vtx # [none |-> TRUE] /\ vtx.at = "done"
  /\ vtx.p.xCurvature = Num(0) /\ vtx.p.yCurvature = Num(0)
  /\ vtx.p.curvatureOrder = "yx" /\ vtx.p.tilt = Num(1)
  /\ Len(vtx.log) = 4 /\ \A n \in 1..4 : vtx.log[n].early
  /\ vtx.scaledCP = Vec2(Num(-1), Num(1))
  /\ vtx.vertex = Vec3(Num(1), Num(-1), Num(0))

-----------------------------------------------------------------------------
(* Properties of the modulation parameters *)

\* The calls of getPointAt made on parameter name for ring i.
CallsFor(name, i) ==
  {k \in 1..Len(mod.calls) :
     mod.calls[k].of = name
       /\ mod.calls[k].u = Ratio(i, mod.axisSegments)}

\* What the ring used for parameter param: the number itself, with no call of
\* getPointAt; or the y of the curve's point at i / axisSegments, sampled once.
ResolvedAs(name, param, value, i) ==
  IF param.type = "number"
    THEN /\ value = param.value
         /\ \A k \in 1..Len(mod.calls) : mod.calls[k].of # name
    ELSE /\ value = param.points[(i * UnitsOfU) \div mod.axisSegments].y
         /\ Cardinality(CallsFor(name, i)) = 1

\* C21: at every ring a parameter that is a number resolves to that number
\* and no curve is sampled for it, and a parameter that is a curve resolves to
\* the y component of the curve's point at u = i / axisSegments.
C21_Resolve ==
  mod # [none |-> TRUE] =>
    \A r \in 1..Len(mod.rings) :
      LET ring == mod.rings[r]
      IN /\ ring.i = r - 1
         /\ ResolvedAs("scale", mod.scale, ring.scale, ring.i)
         /\ ResolvedAs("xScale", mod.xScale, ring.xScale, ring.i)
         /\ ResolvedAs("yScale", mod.yScale, ring.yScale, ring.i)

\* All rings of a tube of two segments are done whose scale is the number 5
\* and whose xScale is a curve.
C21_Witness ==
  /\ mod # [none |-> TRUE]
  /\ mod.scale = Number(5)
  /\ mod.xScale = RisingCurve
  /\ mod.axisSegments = 2
  /\ Len(mod.rings) = 3
  /\ mod.rings[2].scale = 5
  /\ mod.rings[2].xScale = 3 + UnitsOfU \div 2

-----------------------------------------------------------------------------
(* Properties of the editing history *)

\* C22: after an undo the parameter tree equals the tree as it was before
\* the edit undone, and after a redo the tree as it was after that edit, every
\* control point of every curve, every scalar, the segment counts and
\* curvatureOrder included.
C22_UndoRedo ==
  (undo # [none |-> TRUE] /\ undo.lastOp \in {"undo", "redo"}) =>
    undo.tube = undo.expected

\* Two edits, the second to curvatureOrder, the first to the axis, were
\* undone and the first redone.
C22_Witness ==
  /\ undo # [none |-> TRUE]
  /\ undo.lastOp = "redo"
  /\ Len(undo.undoStack) = 1
  /\ Len(undo.redoStack) = 1
  /\ Tube_fromJSON(undo.redoStack[1]).curvatureOrder = "yx"
  /\ undo.tube.curvatureOrder = "xy"
  /\ Tube_fromJSON(undo.undoStack[1]).axis # undo.tube.axis

-----------------------------------------------------------------------------
(* Properties of the sync flags *)

\* A handle of a control point: its polar or spherical form, its offset
\* vector, its position and (ControlPoint3) its angle triple.
Handle2(p, side) ==
  IF side = "left" THEN [C |-> p.leftC, V |-> p.leftV, Pos |-> p.leftPos]
  ELSE [C |-> p.rightC, V |-> p.rightV, Pos |-> p.rightPos]

Handle3(p, side) ==
  IF side = "up" THEN [S |-> p.upS, V |-> p.upV, A |-> p.upA, Pos |-> p.upPos]
  ELSE [S |-> p.downS, V |-> p.downV, A |-> p.downA, Pos |-> p.downPos]

\* The unit vectors of a direction.
UnitOf2(angle) == Circular_toVector2(Circular(1, angle))
UnitOf3(phi, theta) == Vector3_setFromSpherical(Spherical(1, phi, theta))

\* What an edit of handle "edited" that takes control point p to q does to
\* the handle "other", for each setting of the flags but both.
OtherHandle2(p, q, edited, other) ==
  LET e == Handle2(q, edited)
      was == Handle2(p, other)
      is == Handle2(q, other)
  IN /\ (p.isSyncRadius /\ ~p.isSyncAngle) =>
          /\ is.C.radius = e.C.radius
          /\ is.C.angle = was.C.angle
          /\ is.V = Circular_toVector2(is.C)
          /\ is.Pos = Add2(q.middlePos, is.V)
     /\ (~p.isSyncRadius /\ p.isSyncAngle) =>
          /\ UnitOf2(is.C.angle) = Scale2(-1, UnitOf2(e.C.angle))
          /\ is.C.radius = was.C.radius
          /\ is.V = Circular_toVector2(is.C)
          /\ is.Pos = Add2(q.middlePos, is.V)
     /\ (~p.isSyncRadius /\ ~p.isSyncAngle) => is = was

OtherHandle3(p, q, edited, other) ==
  LET e == Handle3(q, edited)
      was == Handle3(p, other)
      is == Handle3(q, other)
  IN /\ (p.isSyncRadius /\ ~p.isSyncAngle) =>
          /\ is.S.radius = e.S.radius
          /\ is.S.phi = was.S.phi
          /\ is.S.theta = was.S.theta
          /\ is.V = Vector3_setFromSpherical(is.S)
          /\ is.Pos = Add3(q.middlePos, is.V)
     /\ (~p.isSyncRadius /\ p.isSyncAngle) =>
          /\ UnitOf3(is.S.phi, is.S.theta) = Neg3(UnitOf3(e.S.phi, e.S.theta))
          /\ is.S.radius = was.S.radius
          /\ is.V = Vector3_setFromSpherical(is.S)
          /\ is.Pos = Add3(q.middlePos, is.V)
     /\ (~p.isSyncRadius /\ ~p.isSyncAngle) => is = was

\* A step that edits the named handle: every handle edit records its handle
\* in lastOp and leaves middlePos alone, an edit of middlePos that moves the
\* point does not, and a change of a flag records "flag".
HandleEdit(side) == lastOp' = side /\ point'.middlePos = point.middlePos

\* C23: an edit of one handle, once its update has run, gives the other
\* handle the edited one's length and leaves its direction if only
\* isSyncRadius is set, gives it the opposite direction and leaves its length
\* if only isSyncAngle is set, and leaves all of it alone if neither is set.
C23_SyncFlags ==
  [][/\ (kind = "cp2" /\ HandleEdit("left")) =>
          OtherHandle2(point, point', "left", "right")
     /\ (kind = "cp2" /\ HandleEdit("right")) =>
          OtherHandle2(point, point', "right", "left")
     /\ (kind = "cp3" /\ HandleEdit("up")) =>
          OtherHandle3(point, point', "up", "down")
     /\ (kind = "cp3" /\ HandleEdit("down")) =>
          OtherHandle3(point, point', "down", "up")]_vars

\* With only isSyncRadius set the left handle of a ControlPoint2 was shrunk
\* to radius 0 and the right one followed, pointing where it did.
C23_Witness ==
  /\ kind = "cp2"
  /\ lastOp = "left"
  /\ point.isSyncRadius /\ ~point.isSyncAngle
  /\ point.leftC.radius = 0
  /\ point.rightC.radius = 0
  /\ point.rightPos = point.middlePos
  /\ UnitOf2(point.rightC.angle) # Scale2(-1, UnitOf2(point.leftC.angle))

-----------------------------------------------------------------------------
(* Properties of the incremental segment list *)

\* C24: in the incremental revision, after any sequence of addCp, removeCp
\* and updateCp calls from any point list, the empty and the one-point list
\* included, curves equals, entry for entry, what fillAllCurves() computes
\* from the current cps.
C24_SameAsRebuild == rev = "fill" => curves = fillAllCurves(cps)

\* updateCp(0) on a curve of one point has returned: curves holds one entry,
\* a rebuild would leave none.
C24_Witness ==
  /\ rev = "fill" /\ last.op = "updateCp" /\ last.index = Idx(0)
  /\ Len(cps) = 1
  /\ Len(curves) = 1
  /\ fillAllCurves(cps) = <<>>

-----------------------------------------------------------------------------
(* Properties of the split's frame *)

\* Where the point at position k of the list before the split is afterwards,
\* the new point being at position i + 1 (positions counted from 1).
AfterSplit(k, i) == IF k <= i THEN k ELSE k + 1

\* C25: a call of interpolateCp(i) with a valid index makes the list one
\* longer, leaves every point but the two neighbours of the new point as it
\* was, leaves middlePos and leftPos of the left neighbour and middlePos and
\* rightPos of the right neighbour as they were, and so leaves the shape of
\* every segment but the one split, whatever the neighbours' sync flags.
C25_SplitFrame ==
  [][(rev \in {"gui", "panel"} /\ interps' = interps + 1)
     => LET i == last'.index.n
        IN /\ Len(cps') = Len(cps) + 1
           /\ \A k \in 1..Len(cps) :
                k \notin {i, i + 1} => cps'[AfterSplit(k, i)] = cps[k]
           /\ cps'[i].middlePos = cps[i].middlePos
           /\ cps'[i].leftPos = cps[i].leftPos
           /\ cps'[i + 2].middlePos = cps[i + 1].middlePos
           /\ cps'[i + 2].rightPos = cps[i + 1].rightPos
           /\ \A k \in 1..(Len(cps) - 1) :
                k # i => CubicBezierCurve(cps'[AfterSplit(k, i)],
                                          cps'[AfterSplit(k + 1, i)])
                           = CubicBezierCurve(cps[k], cps[k + 1])]_vars

\* interpolateCp(2) has split the second segment of a curve of three points
\* whose second point has both sync flags set: that point is where it was,
\* with a left handle that is not the one it had.
C25_Witness ==
  /\ rev = "gui" /\ last.op = "interpolateCp" /\ last.index = Idx(2) /\ last.n = 3
  /\ Len(cps) = 4
  /\ cps[1] = CpA
  /\ cps[2].middlePos = CpA.middlePos
  /\ cps[2].isSyncRadius /\ cps[2].isSyncAngle
  /\ cps[2].leftPos # CpA.leftPos

-----------------------------------------------------------------------------
(* Properties of a control point with both flags set *)

\* C26: in every state of a control point, whether it was just constructed,
\* had a flag switched in the panel or had a handle edited, if both sync
\* flags are set the two handles mirror each other about middlePos: the
\* offset vector of one is minus that of the other.
C26_Mirrored ==
  /\ (kind = "cp2" /\ point.isSyncRadius /\ point.isSyncAngle) =>
       /\ point.rightV = Scale2(-1, point.leftV)
       /\ point.rightPos = Sub2(point.middlePos, point.leftV)
  /\ (kind = "cp3" /\ point.isSyncRadius /\ point.isSyncAngle) =>
       /\ point.downV = Neg3(point.upV)
       /\ point.downPos = Sub3(point.middlePos, point.upV)

\* Both flags of a ControlPoint3 were switched on in the panel after its up
\* handle had been turned away from the line of the down handle.
C26_Witness ==
  /\ kind = "cp3"
  /\ lastOp = "flag"
  /\ point.isSyncRadius /\ point.isSyncAngle
  /\ point.upV = Vec3(1, 0, 0)
  /\ point.downV = Vec3(0, -1, 0)

-----------------------------------------------------------------------------
(* Properties of clone and copy *)

\* C27: after b = a.clone() of a Tube, a TubeBaseGeometry, a Curve2 or a
\* ControlPoint3, an edit of b (of a control point, of the list of a curve's
\* points, of a number) leaves every parameter and every field of every
\* control point of a as it was, and an edit of a leaves those of b.
C27_DeepCopy ==
  (mem # [none |-> TRUE] /\ mem.edited # "none") =>
    ValueOf(mem.heap, OtherThan(mem.edited)) = mem.otherWas

\* A control point of the scale curve of a tube's clone was edited, then a
\* control point was added to the clone's axis.
C27_Witness ==
  /\ mem # [none |-> TRUE]
  /\ mem.b # 0
  /\ mem.heap[mem.a].class = "Tube"
  /\ mem.edits = 2
  /\ mem.edited = "b"
  /\ LET a == ValueOf(mem.heap, mem.a)
         b == ValueOf(mem.heap, mem.b)
     IN /\ Len(b.axis.cps) = 2
        /\ Len(a.axis.cps) = 1
        /\ b.scaleC.cps[1].leftPos # a.scaleC.cps[1].leftPos
        /\ \A k \in DOMAIN a : k \notin {"axis", "scaleC"} => a[k] = b[k]

-----------------------------------------------------------------------------
(* Properties of the panel's buttons *)

\* C28: after any sequence of panel actions on a curve of N points, the
\* interpolateCp button is enabled exactly when indexI is in [1, N-1] and the
\* removeCp button exactly when indexR is in [0, N-1]; an enabled button is
\* never pressed with an index the operation rejects.
C28_Buttons ==
  rev = "panel" =>
    /\ cICP <=> (indexI >= 1 /\ indexI <= Len(cps) - 1)
    /\ cRCP <=> (indexR >= 0 /\ indexR <= Len(cps) - 1)
    /\ cICP => ~isInvalidIndex(Idx(indexI), 1, Len(cps) - 1)
    /\ cRCP => ~isInvalidIndex(Idx(indexR), 0, Len(cps) - 1)
    /\ last.op = "interpolateCp" => ~isInvalidIndex(last.index, 1, last.n - 1)
    /\ last.op = "removeCp" => ~isInvalidIndex(last.index, 0, last.n - 1)

\* indexI = 2 was chosen on a curve of three points and removeCp took one
\* away: interpolateCp is disabled, removeCp is still enabled.
C28_Witness ==
  /\ rev = "panel"
  /\ last.op = "removeCp"
  /\ last.n = 3
  /\ Len(cps) = 2
  /\ indexI = 2
  /\ ~cICP
  /\ cRCP

-----------------------------------------------------------------------------
(* Properties of the post-pass on an affine grid *)

\* The rings whose cross product the post-pass takes at ring i: the next one
\* at ring 0, the one before at the last ring, both in between.
RingsAt(as, i) == {r \in {-1, 1} : i + r >= 0 /\ i + r <= as}

\* C29: on a grid whose transformed cross points step by a constant per ring
\* and a constant per column, each of the six boundary cases of the post-pass
\* yields the same cross product, hence the same weight z / xy at every
\* vertex, and the corrected normals are the same at every vertex.
C29_Uniform ==
  geo # [none |-> TRUE] =>
    LET as == geo.axisSegments
        cs == geo.crossSegments
        L == Divide(Num(as), Num(as))
    IN /\ \A i \in 0..as, j \in 0..cs :
            /\ \A r \in RingsAt(as, i) :
                 crossOfNeighbours(geo.CPsAfter, cs, i, j, r, L)
                   = crossOfNeighbours(geo.CPsAfter, cs, 0, 0, 1, L)
            /\ slopeOf(geo.CPsAfter, as, cs, i, j, L)
                 = slopeOf(geo.CPsAfter, as, cs, 0, 0, L)
       /\ geo.pass = "done" =>
            \A n \in 1..GridSize(as, cs) : geo.normals[n] = geo.normals[1]

\* The post-pass has corrected every vertex of a grid of three rings and
\* three columns whose weight is not zero: every normal is along the axis.
C29_Witness ==
  /\ geo # [none |-> TRUE]
  /\ geo.pass = "done"
  /\ geo.axisSegments = 2
  /\ geo.crossSegments = 2
  /\ geo.CPsAfter[2] # geo.CPsAfter[1]
  /\ geo.CPsAfter[4] # geo.CPsAfter[1]
  /\ slopeOf(geo.CPsAfter, 2, 2, 1, 1, Num(1)) = Num(-1)
  /\ \A n \in 1..9 : geo.normals[n] = Vec3(Num(0), Num(0), Num(-1))

-----------------------------------------------------------------------------
(* Properties of saveClosed and loadClosed *)

\* No two folders of the same parent share a title, at any depth.
RECURSIVE DistinctTitles(_)
DistinctTitles(g) ==
  /\ \A k, l \in 1..Len(g.folders) :
       g.folders[k].title = g.folders[l].title => k = l
  /\ \A k \in 1..Len(g.folders) : DistinctTitles(g.folders[k])

\* C30: loadClosed(gui, saveClosed(gui)) gives the panel and every folder at
\* every depth the open/closed state it had when saved, for any folder tree,
\* also when sibling folders share a title and when folders were opened or
\* closed in between.
C30_Restored ==
  (gui # [none |-> TRUE] /\ gui.lastOp = "load") =>
    (~gui.threw /\ gui.tree = gui.whenSaved)

\* Two folders titled "curve" in the panel, the first closed and the second
\* open when saved: after loadClosed both are open.
C30_Witness ==
  /\ gui # [none |-> TRUE]
  /\ gui.lastOp = "load"
  /\ ~gui.threw
  /\ Len(gui.tree.folders) = 2
  /\ gui.tree.folders[1].title = "curve"
  /\ gui.tree.folders[2].title = "curve"
  /\ gui.whenSaved.folders[1].closed
  /\ ~gui.whenSaved.folders[2].closed
  /\ ~gui.tree.folders[1].closed
  /\ ~gui.tree.folders[2].closed

\* With distinct titles among siblings the states are restored.
RestoredIfDistinct ==
  (gui # [none |-> TRUE] /\ gui.lastOp = "load" /\ DistinctTitles(gui.tree)) =>
    (~gui.threw /\ gui.tree = gui.whenSaved)

\* loadClosed reads _closed of undefined.
LoadThrows == gui # [none |-> TRUE] /\ gui.lastOp = "load" /\ gui.threw

====
